---- MODULE Spec2Model ----
(***************************************************************************)
(* vibecast: the mpv controller (src/player/mpv.rs), its JSON IPC call     *)
(* engine, and the three contexts that share one controller behind a       *)
(* tokio Mutex (src/main.rs): the UI command path, the metadata poller and *)
(* the audio-level poller.  The controlled mpv process is the environment: *)
(* it may answer, answer late, emit events or junk, hang, or exit.         *)
(***************************************************************************)
EXTENDS Integers, Sequences, FiniteSets, TLC

\* ------------------------------------------------------------------ bounds
\* request ids the model lets the controller allocate
MaxReq == 3
\* processes the model lets the controller spawn
MaxSpawn == 2
\* lines of the transport that may be buffered unread
MaxInbox == 1
\* looks connect_unix takes for the socket file in its loop (50 in the source)
MaxPolls == 2
\* tokens in a media-title mpv reports where titles are enumerated
MaxTitle == 3
\* the largest playback-time reported, in tenths of a second, where times are
\* enumerated
MaxTime == 100
\* channels the station list holds at most
MaxChannels == 2
\* AppUpdates waiting in the channel at most
MaxUpdates == 1

\* ------------------------------------------------------- program constants
DefaultVolume == 80
MaxVolume == 100
VolumeStep == 5
FirstRequestId == 1
InitialLastVolume == 80

\* ------------------------------------------------------------------- state
VARIABLES
    child,        \* MpvController.child: 0 = None, else the pid of the handle held
    reader,       \* MpvController.reader: 0 = None, else the pid it is connected to
    writer,       \* MpvController.writer: 0 = None, else the pid it is connected to
    request_id,   \* MpvController.request_id (AtomicU64), the next id to hand out
    state,        \* MpvController.state: PlaybackState
    lockOwner,    \* the tokio Mutex around the controller: "none" or the holder
    pc,           \* per context: where it stands
    op,           \* per context: the controller operation it runs
    audio_tx,     \* last value sent on the audio watch channel
    procs,        \* spawned mpv processes not yet reaped
    spawned,      \* number of processes spawned so far
    socketFile,   \* whether the IPC socket file exists
    mpvMode,      \* the current mpv process: "none", "live", "hung" or "dead"
    inbox,        \* lines mpv has written that the controller has not read yet
    sent,         \* request ids handed to the writer, in write order
    spectrum_data,\* App.spectrum_data: the levels it holds and has_audio
    failed,       \* history: the transport handle held, if the last call of a
                  \* returned operation ended closed or in an I/O error on it
    app,          \* the fields of App the key actions and the updates work on
    update_rx,    \* the mpsc channel of AppUpdate from the metadata worker
    worker,       \* metadata_worker: the request it watches, the one it works on
    calc,         \* a computation on numbers: its name, its input, its result
    mpvProc       \* the mpv process as it executes commands: whether it is
                  \* paused, the requests it has read and those it owes an
                  \* answer, the requests it answered after their call ended

vars == <<child, reader, writer, request_id, state, lockOwner, pc, op, audio_tx,
          procs, spawned, socketFile, mpvMode, inbox, sent, spectrum_data,
          failed, app, update_rx, worker, calc, mpvProc>>

\* what no operation of the controller touches
appVars == <<app, update_rx, worker, calc, mpvProc>>

Ctx == {"ui", "meta", "audio"}
Pollers == {"meta", "audio"}

\* ------------------------------------------------------------ JSON values
NoStr == <<"#none">>
NonStr == <<"#nonstr">>

Data(t, s, icy, title, artist) ==
    [t |-> t, s |-> s, icy |-> icy, title |-> title, artist |-> artist]

Null == Data("null", NoStr, NoStr, NoStr, NoStr)
StrV(s) == Data("str", s, NoStr, NoStr, NoStr)
NumV == Data("num", NoStr, NoStr, NoStr, NoStr)
ObjV(icy, title, artist) == Data("obj", NoStr, icy, title, artist)

\* faulty variant: the string is split at the last separator
SepIndexLast(s) ==
    IF \E i \in 1..Len(s) : s[i] = "-"
    THEN CHOOSE i \in 1..Len(s) :
             s[i] = "-" /\ \A j \in (i + 1)..Len(s) : s[j] # "-"
    ELSE 0

\* str::split_once(" - "): the separator is the token "-"
SepIndex(s) ==
    IF \E i \in 1..Len(s) : s[i] = "-"
    THEN CHOOSE i \in 1..Len(s) : s[i] = "-" /\ \A j \in 1..(i - 1) : s[j] # "-"
    ELSE 0

SplitArtist(s) == SubSeq(s, 1, SepIndex(s) - 1)
SplitTitle(s) == SubSeq(s, SepIndex(s) + 1, Len(s))

\* str::parse::<f32>: the token "7" stands for a decimal number
ParsesF32(s) == s = <<"7">>

\* Value::as_str on a map entry: None when absent or not a string
AsStr(v) == IF v = NonStr THEN NoStr ELSE v

\* map.get("icy-title").or_else(|| map.get("title")).and_then(as_str)
ObjTitle(d) == IF d.icy # NoStr THEN AsStr(d.icy) ELSE AsStr(d.title)
ObjArtist(d) == AsStr(d.artist)

\* ------------------------------------------------------- transport lines
NoId == -1
NoField == "#absent"

\* one line as mpv wrote it: json = it is a JSON object of the response shape
Line(json, rid, err, data, ev) ==
    [json |-> json, request_id |-> rid, error |-> err, data |-> data, event |-> ev]

Garbage == Line(FALSE, NoId, NoField, Null, NoField)

\* serde_json::from_str::<MpvResponse>: every field has #[serde(default)]
MpvResponse(line) ==
    [ok |-> line.json,
     request_id |-> IF line.request_id = NoId THEN 0 ELSE line.request_id,
     error |-> IF line.error = NoField THEN "" ELSE line.error,
     data |-> line.data,
     event |-> line.event]

\* faulty variant: the event field is not looked at
IsEventNever(resp) == FALSE

\* if response.event.is_some() { continue; }
IsEvent(resp) == resp.event # NoField

\* faulty variant: any response that is not an event is taken as the answer
IsAnyResponse(resp, rid) == TRUE

\* faulty variant: the answer to an earlier request is taken as well
IsOurResponseOrEarlier(resp, rid) ==
    resp.request_id <= rid /\ resp.request_id >= FirstRequestId

\* if response.request_id == request_id
IsOurResponse(resp, rid) == resp.request_id = rid

\* faulty variant: an empty error field counts as an error
IsRejectedUnlessSuccess(resp) == resp.error # "success"

\* if resp.error != "success" && !resp.error.is_empty()
IsRejected(resp) == resp.error # "success" /\ resp.error # ""

\* ------------------------------------------------------------ call results
Res(kind, data) == [kind |-> kind, data |-> data]
NoRes == Res("none", Null)

\* what an operation returned: Ok, Err, None or Some((artist, title))
Ret(k, a, t) == [k |-> k, a |-> a, t |-> t]
NoRet == Ret("none", <<>>, <<>>)

\* SpectrumData::default(); levels names where rms and peak came from
SpectrumDataDefault == [levels |-> "none", has_audio |-> FALSE]

PlaybackStateDefault ==
    [playing |-> FALSE, paused |-> FALSE, volume |-> DefaultVolume,
     title |-> NoStr, artist |-> NoStr]

\* MpvController::new()
NewController ==
    [child |-> 0, reader |-> 0, writer |-> 0, request_id |-> FirstRequestId,
     state |-> PlaybackStateDefault]

\* what a caller that watches the volume knows of the volume call it made
\* last: the call, its argument and state.volume when it was made
NoLast == [name |-> "none", arg |-> 0, volume |-> 0]

\* an operation in progress: its argument, the local `volume` of set_volume or
\* the --volume play starts mpv with,
\* the call it waits on, and for the properties the controller as it was when
\* the operation was invoked
NoOp == [name |-> "none", arg |-> 0, stage |-> 0, rid |-> 0, res |-> NoRes,
         ret |-> NoRet, waited |-> FALSE, volume |-> 0,
         pre |-> NewController, last |-> NoLast, log |-> <<>>, polls |-> 0]

NewOp(name, arg) == [NoOp EXCEPT !.name = name, !.arg = arg]

\* ------------------------------------------------------------------- init
\* a MetadataRequest: the id of the current channel (0 = None), which also
\* stands for its image url, and show_artwork
MetadataRequest(id, show) == [channel_id |-> id, show_artwork |-> show]

\* App::new(), the fields followed here; indices count from 1 and 0 is None,
\* songs, title and artwork are named by the channel they belong to; playing
\* is the channel whose url the player was last started with; exited and
\* panicked tell how run_app ended
NewApp ==
    [channels |-> <<>>, selected |-> 0, current_channel |-> 0,
     current_song |-> 0, song_history |-> 0, stream_title |-> 0,
     show_artwork |-> TRUE, artwork |-> 0, playing |-> 0,
     last_volume |-> InitialLastVolume, is_muted |-> FALSE,
     exited |-> FALSE, panicked |-> FALSE]

\* metadata_worker before its first pass
NoWorker ==
    [req_rx |-> MetadataRequest(0, TRUE), req |-> MetadataRequest(0, TRUE),
     stage |-> "wait", last_artwork_url |-> 0]

\* an mpv process that has read no request: it starts unpaused
NoProc == [pid |-> 0, paused |-> FALSE, read |-> 0, owed |-> {}, late |-> {}]

\* no computation
NoCalc == [fn |-> "none", in |-> <<>>, out |-> <<>>]

\* MpvController::new() and the world around it before the first play
ControllerInit ==
    /\ child = 0
    /\ reader = 0
    /\ writer = 0
    /\ request_id = FirstRequestId
    /\ state = PlaybackStateDefault
    /\ lockOwner = "none"
    /\ pc = [c \in Ctx |-> "idle"]
    /\ op = [c \in Ctx |-> NoOp]
    /\ audio_tx = "None"
    /\ procs = {}
    /\ spawned = 0
    /\ socketFile = FALSE
    /\ mpvMode = "none"
    /\ inbox = <<>>
    /\ sent = <<>>
    /\ spectrum_data = SpectrumDataDefault
    /\ failed = {}
    /\ mpvProc = NoProc

Init ==
    /\ ControllerInit
    /\ app = NewApp
    /\ update_rx = <<>>
    /\ worker = NoWorker
    /\ calc = NoCalc


\* ------------------------------------------------------ the controller lock
\* faulty variant: a try_lock that succeeds whoever holds the lock
TryLockAlways == TRUE

\* tokio::sync::Mutex::try_lock succeeds
TryLockOk == lockOwner = "none"

\* faulty variant: a poller whose try_lock fails queues for the lock
OnLockBusyWaits(p) == "wait"

\* a poller whose try_lock fails goes back to wait for its next tick
OnLockBusy(p) == "skipped"

\* the first thing a poller runs once it holds the lock
WorkerOf(p) == IF p = "meta" THEN "metadata_worker" ELSE "audio_worker"

\* faulty variant: a released lock is never passed to the waiting UI path
HeirNobody(c) == "none"

\* who holds the lock once c has released it: the tokio Mutex is fair, a
\* queued lock().await receives the permit before any later try_lock can
Heir(c) == IF pc["ui"] = "wait" /\ c # "ui" THEN "ui" ELSE "none"

\* dropping the MutexGuard
Unlock(c, newpc) ==
    IF Heir(c) = "ui"
    THEN /\ lockOwner' = "ui"
         /\ pc' = [pc EXCEPT ![c] = newpc, !["ui"] = "locked"]
    ELSE /\ lockOwner' = "none"
         /\ pc' = [pc EXCEPT ![c] = newpc]

\* ---------------------------------------------------- controller as a value
Self ==
    [child |-> child, reader |-> reader, writer |-> writer,
     request_id |-> request_id, state |-> state]

\* faulty variant: a stop that leaves the paused flag as it was
StoppedKeepsPaused(k) ==
    [k EXCEPT !.reader = 0, !.writer = 0, !.child = 0,
              !.state = [@ EXCEPT !.playing = FALSE]]

\* faulty variant: a stop that leaves the write half connected
StoppedKeepsWriter(k) ==
    [k EXCEPT !.reader = 0, !.child = 0,
              !.state = [@ EXCEPT !.playing = FALSE, !.paused = FALSE]]

\* faulty variant: a stop that keeps the child process handle
StoppedKeepsChild(k) ==
    [k EXCEPT !.reader = 0, !.writer = 0,
              !.state = [@ EXCEPT !.playing = FALSE, !.paused = FALSE]]

\* faulty variant: a stop that puts the volume back to its default
StoppedResetsVolume(k) ==
    [k EXCEPT !.reader = 0, !.writer = 0, !.child = 0,
              !.state = [@ EXCEPT !.playing = FALSE, !.paused = FALSE,
                                  !.volume = DefaultVolume]]

\* the fields MpvController::stop leaves behind
Stopped(k) ==
    [k EXCEPT !.reader = 0, !.writer = 0, !.child = 0,
              !.state = [@ EXCEPT !.playing = FALSE, !.paused = FALSE]]

\* faulty variant: nothing is clamped
ClampNothing(v) == v

\* volume.min(100)
ClampVolume(v) == IF v > MaxVolume THEN MaxVolume ELSE v

\* u8 addition
U8Add(a, b) == (a + b) % 256

\* u8::saturating_sub
SaturatingSub(a, b) == IF a >= b THEN a - b ELSE 0

\* ids one operation may allocate
NeedIds(name) ==
    CASE name \in {"toggle_pause", "set_volume", "volume_up", "volume_down"} -> 1
      [] name \in {"get_metadata", "metadata_worker"} -> 2
      [] name \in {"get_audio_stats", "audio_worker"} -> 3
      [] OTHER -> 0

\* the operation sends nothing in the present state
Quiet(name) ==
    CASE name \in {"toggle_pause", "set_volume", "volume_up", "volume_down",
                   "metadata_worker"} -> ~state.playing
      [] name = "get_metadata" -> reader = 0 \/ writer = 0
      [] name = "get_audio_stats" ->
            reader = 0 \/ writer = 0 \/ ~state.playing \/ state.paused
      [] name = "audio_worker" -> ~state.playing \/ state.paused
      [] OTHER -> TRUE

IdsLeft(name) == Quiet(name) \/ request_id + NeedIds(name) <= MaxReq + 1

\* values the UI path passes to set_volume
VolumeInputs == {0, 255}

\* the playback commands of the UI path
UIOps == {NewOp(n, 0) : n \in {"play", "stop", "toggle_pause"}}

\* every public operation of the controller, as one caller may invoke it
ApiOps ==
    {NewOp(n, 0) : n \in {"play", "stop", "toggle_pause", "volume_up",
                          "volume_down", "get_metadata", "get_audio_stats"}}
    \cup {NewOp("set_volume", v) : v \in VolumeInputs}

VolumeOps == {"set_volume", "volume_up", "volume_down"}

\* the operation o is invoked in the current state, after the call `last`
Invoked(o, last) == [o EXCEPT !.pre = Self, !.last = last]

\* what is kept of operation o once it has returned: the volume call it was,
\* or the one before it
Remember(o) ==
    IF o.name \in VolumeOps
    THEN [name |-> o.name, arg |-> o.arg, volume |-> o.pre.state.volume]
    ELSE o.last

\* an operation returns to its caller
Finish(c, o, ret) ==
    /\ pc' = [pc EXCEPT ![c] = "done"]
    /\ op' = [op EXCEPT ![c] = [o EXCEPT !.ret = ret]]

\* -------------------------------------------------- send_command_with_timeout
WriteOutcomes == IF mpvMode = "dead" THEN {TRUE, FALSE} ELSE {TRUE}

\* faulty variant: the counter is read but not advanced
FetchSame(id) == id

\* request_id.fetch_add(1, Ordering::SeqCst): the value the counter holds next
FetchAdd(id) == id + 1

\* the head of send_command_with_timeout: the connection check, the id, the write
BeginCall(c, o, cmd) ==
    IF writer = 0 \/ reader = 0
    THEN /\ pc' = [pc EXCEPT ![c] = "ret"]
         /\ op' = [op EXCEPT ![c] = [o EXCEPT !.rid = 0,
                                             !.res = Res("not_connected", Null)]]
         /\ UNCHANGED <<request_id, sent>>
    ELSE /\ request_id' = FetchAdd(request_id)
         /\ sent' = Append(sent, request_id)
         /\ \E written \in WriteOutcomes :
              IF written
              THEN /\ pc' = [pc EXCEPT ![c] = "call_read"]
                   /\ op' = [op EXCEPT ![c] = [o EXCEPT !.rid = request_id,
                                                       !.res = NoRes]]
              ELSE /\ pc' = [pc EXCEPT ![c] = "ret"]
                   /\ op' = [op EXCEPT ![c] = [o EXCEPT !.rid = request_id,
                                                       !.res = Res("write_error", Null)]]

EndCall(c, res) ==
    /\ pc' = [pc EXCEPT ![c] = "ret"]
    /\ op' = [op EXCEPT ![c].res = res]

\* Ok(Ok(n)), n > 0: one line was read
ReadLine(c) ==
    /\ pc[c] = "call_read"
    /\ inbox # <<>>
    /\ inbox' = Tail(inbox)
    /\ LET resp == MpvResponse(Head(inbox)) IN
         IF resp.ok /\ ~IsEvent(resp) /\ IsOurResponse(resp, op[c].rid)
         THEN EndCall(c, IF IsRejected(resp)
                         THEN Res("rejected", Null)
                         ELSE Res("ok", resp.data))
         ELSE UNCHANGED <<pc, op>>
    /\ UNCHANGED <<child, reader, writer, request_id, state, lockOwner,
                   audio_tx, spectrum_data, failed, procs, spawned, socketFile,
                   mpvMode, sent, appVars>>

\* Ok(Ok(0)): end of stream
ReadClosed(c) ==
    /\ pc[c] = "call_read"
    /\ inbox = <<>>
    /\ mpvMode \in {"dead", "none"}
    /\ EndCall(c, Res("closed", Null))
    /\ UNCHANGED <<child, reader, writer, request_id, state, lockOwner,
                   audio_tx, spectrum_data, failed, procs, spawned, socketFile,
                   mpvMode, inbox, sent, appVars>>

\* Ok(Err(e)): the read fails
ReadError(c) ==
    /\ pc[c] = "call_read"
    /\ inbox = <<>>
    /\ mpvMode \in {"dead", "none"}
    /\ EndCall(c, Res("read_error", Null))
    /\ UNCHANGED <<child, reader, writer, request_id, state, lockOwner,
                   audio_tx, spectrum_data, failed, procs, spawned, socketFile,
                   mpvMode, inbox, sent, appVars>>

\* faulty variant: an expired read hands back a value
TimeoutAsValue == Res("ok", Null)

\* Err(_) => return Err(anyhow!("Timeout waiting for response"))
TimeoutResult == Res("timeout", Null)

\* the controller becomes k
SetSelf(k) ==
    /\ child' = k.child
    /\ reader' = k.reader
    /\ writer' = k.writer
    /\ request_id' = k.request_id
    /\ state' = k.state

\* faulty variant: a timeout gives the transport up
TimedOutDisconnects(k) == [k EXCEPT !.reader = 0, !.writer = 0]

\* the controller once the read has timed out: the arm only builds the error
TimedOut(k) == k

\* Err(_): read_timeout elapsed with no line
ReadTimeout(c) ==
    /\ pc[c] = "call_read"
    /\ inbox = <<>>
    /\ mpvMode \in {"live", "hung"}
    /\ EndCall(c, TimeoutResult)
    /\ SetSelf(TimedOut(Self))
    /\ UNCHANGED <<lockOwner, audio_tx, spectrum_data, failed,
                   procs, spawned, socketFile, mpvMode, inbox, sent, appVars>>


\* ------------------------------------------------------------- contexts
\* the UI command path: a key event arrives and the path asks for the lock
UIIssue ==
    /\ pc["ui"] = "idle"
    /\ IF lockOwner = "none"
       THEN /\ lockOwner' = "ui"
            /\ pc' = [pc EXCEPT !["ui"] = "locked"]
            /\ op' = [op EXCEPT !["ui"] = NewOp("command", 0)]
       ELSE /\ pc' = [pc EXCEPT !["ui"] = "wait"]
            /\ op' = [op EXCEPT !["ui"] = [NewOp("command", 0) EXCEPT !.waited = TRUE]]
            /\ UNCHANGED lockOwner
    /\ UNCHANGED <<child, reader, writer, request_id, state, audio_tx,
                   spectrum_data, failed, procs, spawned, socketFile, mpvMode,
                   inbox, sent, appVars>>

\* the command the key event carries; nothing reads it before the lock is held
UICommand(o) ==
    /\ pc["ui"] = "locked"
    /\ op["ui"].name = "command"
    /\ IdsLeft(o.name)
    /\ o.name = "play" => spawned < MaxSpawn
    /\ op' = [op EXCEPT !["ui"] = [Invoked(o, NoLast) EXCEPT
                                       !.waited = op["ui"].waited]]
    /\ UNCHANGED <<child, reader, writer, request_id, state, lockOwner, pc,
                   audio_tx, spectrum_data, failed, procs, spawned, socketFile,
                   mpvMode, inbox, sent, appVars>>

\* a caller that owns the controller invokes operation o on it
ApiCall(o) ==
    /\ pc["ui"] = "idle"
    /\ lockOwner = "none"
    /\ IdsLeft(o.name)
    /\ o.name = "play" => spawned < MaxSpawn
    /\ lockOwner' = "ui"
    /\ pc' = [pc EXCEPT !["ui"] = "locked"]
    /\ op' = [op EXCEPT !["ui"] = Invoked(o, NoLast)]
    /\ UNCHANGED <<child, reader, writer, request_id, state, audio_tx,
                   spectrum_data, failed, procs, spawned, socketFile, mpvMode,
                   inbox, sent, appVars>>

\* outcomes of a call that mean the transport is gone
TransportFailures == {"closed", "read_error", "write_error"}

\* the handles known to have failed once the operation of c has returned;
\* a handle the controller has let go of is forgotten
FailedAfter(c) ==
    IF op[c].res.kind \in TransportFailures /\ writer # 0
    THEN {writer}
    ELSE failed \cap {writer}

\* the operations of a caller that only plays, stops and sets the volume
VolCalls ==
    {NewOp(n, 0) : n \in {"play", "stop", "volume_up", "volume_down"}}
    \cup {NewOp("set_volume", v) : v \in VolumeInputs}

\* that caller invokes o, remembering the volume call it made before
VolCall(o) ==
    /\ pc["ui"] = "idle"
    /\ lockOwner = "none"
    /\ IdsLeft(o.name)
    /\ o.name = "play" => spawned < MaxSpawn
    /\ lockOwner' = "ui"
    /\ pc' = [pc EXCEPT !["ui"] = "locked"]
    /\ op' = [op EXCEPT !["ui"] = Invoked(o, op["ui"].last)]
    /\ UNCHANGED <<child, reader, writer, request_id, state, audio_tx,
                   spectrum_data, failed, procs, spawned, socketFile, mpvMode,
                   inbox, sent, appVars>>

\* the operation has returned to that caller
VolReturn(c) ==
    /\ pc[c] = "done"
    /\ Unlock(c, "idle")
    /\ op' = [op EXCEPT ![c] = [NoOp EXCEPT !.last = Remember(op[c])]]
    /\ failed' = FailedAfter(c)
    /\ UNCHANGED <<child, reader, writer, request_id, state, audio_tx, procs,
                   spawned, socketFile, mpvMode, inbox, sent, spectrum_data, appVars>>

\* a poller's interval fires and it tries the lock
Tick(p) ==
    /\ pc[p] \in {"idle", "skipped"}
    /\ IdsLeft(WorkerOf(p))
    /\ IF TryLockOk
       THEN /\ lockOwner' = p
            /\ pc' = [pc EXCEPT ![p] = "locked"]
            /\ op' = [op EXCEPT ![p] = Invoked(NewOp(WorkerOf(p), 0), NoLast)]
       ELSE /\ pc' = [pc EXCEPT ![p] = OnLockBusy(p)]
            /\ UNCHANGED <<lockOwner, op>>
    /\ UNCHANGED <<child, reader, writer, request_id, state, audio_tx,
                   spectrum_data, failed, procs, spawned, socketFile, mpvMode,
                   inbox, sent, appVars>>

\* metadata_worker with the lock: get_metadata only while playing
MetadataWorkerLocked(c) ==
    /\ pc[c] = "locked"
    /\ op[c].name = "metadata_worker"
    /\ IF state.playing
       THEN /\ op' = [op EXCEPT ![c].name = "get_metadata"]
            /\ UNCHANGED <<pc, lockOwner>>
       ELSE /\ op' = [op EXCEPT ![c] = NoOp]
            /\ Unlock(c, "idle")
    /\ UNCHANGED <<child, reader, writer, request_id, state, audio_tx,
                   spectrum_data, failed, procs, spawned, socketFile, mpvMode,
                   inbox, sent, appVars>>

\* audio_worker with the lock: sends None unless playing and not paused
AudioWorkerLocked(c) ==
    /\ pc[c] = "locked"
    /\ op[c].name = "audio_worker"
    /\ IF ~state.playing \/ state.paused
       THEN /\ audio_tx' = "None"
            /\ op' = [op EXCEPT ![c] = NoOp]
            /\ Unlock(c, "idle")
       ELSE /\ op' = [op EXCEPT ![c].name = "get_audio_stats"]
            /\ UNCHANGED <<pc, lockOwner, audio_tx>>
    /\ UNCHANGED <<child, reader, writer, request_id, state, procs, spawned,
                   socketFile, mpvMode, inbox, sent, spectrum_data, failed, appVars>>

\* the operation has returned: the result goes out and the guard is dropped
Return(c) ==
    /\ pc[c] = "done"
    /\ failed' = FailedAfter(c)
    /\ Unlock(c, "idle")
    /\ op' = [op EXCEPT ![c] = NoOp]
    /\ audio_tx' = IF c = "audio"
                   THEN (IF op[c].ret.k = "None" THEN "None" ELSE "Some")
                   ELSE audio_tx
    /\ UNCHANGED <<child, reader, writer, request_id, state, procs,
                   spawned, socketFile, mpvMode, inbox, sent, spectrum_data, appVars>>

\* SpectrumData::simulate_from_levels: rms, peak and has_audio = true
SimulateFromLevels(d, from) == [levels |-> from, has_audio |-> TRUE]

\* App::update_spectrum once get_audio_stats has returned: the levels go to
\* update_from_levels, and without levels animate only decays what is held
UpdateSpectrum(c) ==
    /\ pc[c] = "done"
    /\ op[c].name = "get_audio_stats"
    /\ Unlock(c, "idle")
    /\ op' = [op EXCEPT ![c] = NoOp]
    /\ spectrum_data' = IF op[c].ret.k = "Some"
                        THEN SimulateFromLevels(spectrum_data, op[c].ret.a[1])
                        ELSE spectrum_data
    /\ failed' = FailedAfter(c)
    /\ UNCHANGED <<child, reader, writer, request_id, state, audio_tx, procs,
                   spawned, socketFile, mpvMode, inbox, sent, appVars>>

\* any other operation has returned to the visualizer's owner
SpectrumReturn(c) ==
    /\ op[c].name # "get_audio_stats"
    /\ Return(c)

\* time::timeout(500 ms, locked.get_metadata()) expires: the future is dropped
Cancel(c) ==
    /\ c = "meta"
    /\ pc[c] = "call_read"
    /\ Unlock(c, "idle")
    /\ op' = [op EXCEPT ![c] = NoOp]
    /\ UNCHANGED <<child, reader, writer, request_id, state, audio_tx,
                   spectrum_data, failed, procs, spawned, socketFile, mpvMode,
                   inbox, sent, appVars>>

\* ------------------------------------------------------ stop and play
\* faulty variant: the process let go of is neither killed nor reaped
ReapedNothing(k) == procs

\* what is left of the processes once the controller became k: kill, wait
Reaped(k) == procs \ ({child} \ {k.child})

\* what stop does to a controller k, in the order of its statements: reader
\* and writer dropped, then child.kill(), child.wait(), then remove_file
StopLog(k) ==
    (IF k.reader # 0 \/ k.writer # 0 THEN <<"close">> ELSE <<>>)
    \o (IF k.child # 0 THEN <<"kill", "wait">> ELSE <<>>)
    \o <<"remove_file">>

\* what Drop does to a controller k: child.start_kill(), remove_file, and, the
\* body of drop over, the fields reader and writer are dropped
DropLog(k) ==
    (IF k.child # 0 THEN <<"kill">> ELSE <<>>)
    \o <<"remove_file">>
    \o (IF k.reader # 0 \/ k.writer # 0 THEN <<"close">> ELSE <<>>)

\* the transport and the process as stop leaves them; the socket file is removed
Teardown(k) ==
    /\ inbox' = IF k.reader = 0 THEN <<>> ELSE inbox
    /\ socketFile' = FALSE

DoStop(c) ==
    /\ pc[c] = "locked"
    /\ op[c].name = "stop"
    /\ LET k == Stopped(Self) IN
         /\ SetSelf(k)
         /\ procs' = Reaped(k)
         /\ mpvMode' = IF k.child = 0 THEN "none" ELSE mpvMode
         /\ Teardown(k)
    /\ Finish(c, [op[c] EXCEPT !.log = StopLog(Self)], Ret("Ok", <<>>, <<>>))
    /\ UNCHANGED <<lockOwner, audio_tx, spectrum_data, failed, spawned, sent, appVars>>

\* Drop for MpvController: the child is sent the kill and not waited for, the
\* socket file is removed, the fields go
DropController(c) ==
    /\ pc[c] = "locked"
    /\ op[c].name = "drop"
    /\ child' = 0
    /\ reader' = 0
    /\ writer' = 0
    /\ mpvMode' = IF child # 0 THEN "dead" ELSE mpvMode
    /\ socketFile' = FALSE
    /\ inbox' = <<>>
    /\ pc' = [pc EXCEPT ![c] = "dropped"]
    /\ op' = [op EXCEPT ![c].log = DropLog(Self)]
    /\ UNCHANGED <<request_id, state, lockOwner, audio_tx, procs, spawned, sent,
                   spectrum_data, failed, appVars>>

\* faulty variant: mpv is started at the default volume
SpawnDefaultVolume(k) == DefaultVolume

\* format!("--volume={}", self.state.volume)
SpawnVolume(k) == k.state.volume

\* play: stop(), remove the socket file, spawn mpv
PlayBegin(c) ==
    /\ pc[c] = "locked"
    /\ op[c].name = "play"
    /\ spawned < MaxSpawn
    /\ LET k == Stopped(Self) IN
         /\ reader' = k.reader
         /\ writer' = k.writer
         /\ request_id' = k.request_id
         /\ state' = k.state
         /\ Teardown(k)
         /\ \E spawnOk \in BOOLEAN :
              IF spawnOk
              THEN /\ child' = spawned + 1
                   /\ spawned' = spawned + 1
                   /\ procs' = Reaped(k) \cup {spawned + 1}
                   /\ mpvMode' = "live"
                   /\ pc' = [pc EXCEPT ![c] = "play_connect"]
                   /\ op' = [op EXCEPT ![c].volume = SpawnVolume(k),
                                       ![c].log = StopLog(Self) \o <<"remove_file">>]
              ELSE /\ child' = k.child
                   /\ procs' = Reaped(k)
                   /\ mpvMode' = IF k.child = 0 THEN "none" ELSE mpvMode
                   /\ Finish(c, [op[c] EXCEPT
                                   !.log = StopLog(Self) \o <<"remove_file">>],
                             Ret("Err", <<>>, <<>>))
                   /\ UNCHANGED spawned
    /\ UNCHANGED <<lockOwner, audio_tx, spectrum_data, failed, sent, appVars>>

ConnectOutcomes == IF mpvMode = "live" THEN {TRUE, FALSE} ELSE {FALSE}

\* faulty variant: the loop does not count its looks
SamePoll(n) == n

\* for _ in 0..50
NextPoll(n) == n + 1

\* connect_unix, one turn of the loop: sleep, look, and the file is not there
PlayPoll(c) ==
    /\ pc[c] = "play_connect"
    /\ op[c].polls < MaxPolls
    /\ ~socketFile
    /\ op' = [op EXCEPT ![c].polls = NextPoll(@)]
    /\ UNCHANGED <<child, reader, writer, request_id, state, lockOwner, pc,
                   audio_tx, procs, spawned, socketFile, mpvMode, inbox, sent,
                   spectrum_data, failed, appVars>>

\* connect_unix past its loop, left because the file is there or the looks
\* are used up
PlayConnect(c) ==
    /\ pc[c] = "play_connect"
    /\ socketFile \/ op[c].polls >= MaxPolls
    /\ IF ~socketFile
       THEN \* the socket is not there at the last look: the child is taken
            /\ child' = 0
            /\ pc' = [pc EXCEPT ![c] = "play_reap"]
            /\ UNCHANGED <<reader, writer, request_id, state, socketFile, inbox,
                           procs, mpvMode, op>>
       ELSE \E connected \in ConnectOutcomes :
              IF connected
              THEN /\ reader' = child
                   /\ writer' = child
                   /\ pc' = [pc EXCEPT ![c] = "play_sleep"]
                   /\ UNCHANGED <<child, request_id, state, procs, mpvMode, op,
                                  socketFile, inbox>>
              ELSE \* UnixStream::connect failed: self.stop()
                   LET k == Stopped(Self) IN
                     /\ SetSelf(k)
                     /\ procs' = Reaped(k)
                     /\ mpvMode' = IF k.child = 0 THEN "none" ELSE mpvMode
                     /\ Teardown(k)
                     /\ Finish(c, [op[c] EXCEPT !.log = @ \o StopLog(Self)],
                               Ret("Err", <<>>, <<>>))
    /\ UNCHANGED <<lockOwner, audio_tx, spectrum_data, failed, spawned, sent, appVars>>

\* connect_unix gives up: child.kill(), child.wait(), Err
PlayReap(c) ==
    /\ pc[c] = "play_reap"
    /\ procs' = procs \ {spawned}
    /\ mpvMode' = "none"
    /\ Finish(c, [op[c] EXCEPT !.log = @ \o <<"kill", "wait">>],
              Ret("Err", <<>>, <<>>))
    /\ UNCHANGED <<child, reader, writer, request_id, state, lockOwner,
                   audio_tx, spawned, socketFile, inbox, sent, spectrum_data,
                   failed, appVars>>

\* faulty variant: the session is not marked as playing
StartedUnmarked(st) == [st EXCEPT !.paused = FALSE]

\* self.state.playing = true; self.state.paused = false
Started(st) == [st EXCEPT !.playing = TRUE, !.paused = FALSE]

\* play after the 500 ms sleep
PlayFinish(c) ==
    /\ pc[c] = "play_sleep"
    /\ state' = Started(state)
    /\ Finish(c, op[c], Ret("Ok", <<>>, <<>>))
    /\ UNCHANGED <<child, reader, writer, request_id, lockOwner, audio_tx,
                   spectrum_data, failed, procs, spawned, socketFile, mpvMode,
                   inbox, sent, appVars>>


\* ------------------------------------------------ toggle_pause, set_volume
TogglePause(c) ==
    /\ pc[c] = "locked"
    /\ op[c].name = "toggle_pause"
    /\ IdsLeft(op[c].name)
    /\ IF ~state.playing
       THEN /\ Finish(c, op[c], Ret("Ok", <<>>, <<>>))
            /\ UNCHANGED <<request_id, sent>>
       ELSE BeginCall(c, op[c], "pause")
    /\ UNCHANGED <<child, reader, writer, state, lockOwner, audio_tx,
                   spectrum_data, failed, procs, spawned, socketFile, mpvMode,
                   inbox, appVars>>

\* faulty variant: paused flips whatever became of the command
PausedFlipped(paused, res) == ~paused

\* Ok(_) => self.state.paused = !self.state.paused; Err(e) => nothing
PausedAfter(paused, res) == IF res.kind = "ok" THEN ~paused ELSE paused

\* paused flips only on Ok(_)
AfterTogglePause(c) ==
    /\ pc[c] = "ret"
    /\ op[c].name = "toggle_pause"
    /\ state' = [state EXCEPT !.paused = PausedAfter(state.paused, op[c].res)]
    /\ Finish(c, op[c], Ret("Ok", <<>>, <<>>))
    /\ UNCHANGED <<child, reader, writer, request_id, lockOwner, audio_tx,
                   spectrum_data, failed, procs, spawned, socketFile, mpvMode,
                   inbox, sent, appVars>>

\* (self.state.volume + 5).min(100)
VolumeUp(v) == ClampVolume(U8Add(v, VolumeStep))

\* faulty variant: volume_down steps by twice the delta
VolumeDownTwice(v) == SaturatingSub(v, 2 * VolumeStep)

\* self.state.volume.saturating_sub(5)
VolumeDown(v) == SaturatingSub(v, VolumeStep)

\* faulty variant: set_volume takes its argument as a change of the volume
NewVolumeRelative(o) ==
    ClampVolume(
        CASE o.name = "volume_up" -> VolumeUp(state.volume)
          [] o.name = "volume_down" -> VolumeDown(state.volume)
          [] OTHER -> U8Add(state.volume, o.arg))

\* the value set_volume works with, for set_volume, volume_up and volume_down
NewVolume(o) ==
    ClampVolume(
        CASE o.name = "volume_up" -> VolumeUp(state.volume)
          [] o.name = "volume_down" -> VolumeDown(state.volume)
          [] OTHER -> o.arg)

\* faulty variant: the command goes out whether or not a session is playing
VolumeSentAlways(k) == TRUE

\* if !self.state.playing { self.state.volume = volume; return Ok(()) }
VolumeSent(k) == k.state.playing

\* faulty variant: the local volume follows only a command that succeeded
VolumeAfterOkOnly(volume, new, res) == IF res.kind = "ok" THEN new ELSE volume

\* Ok(_) => self.state.volume = volume; Err(e) => self.state.volume = volume
VolumeAfter(volume, new, res) == new

SetVolume(c) ==
    /\ pc[c] = "locked"
    /\ op[c].name \in VolumeOps
    /\ IdsLeft(op[c].name)
    /\ IF ~VolumeSent(Self)
       THEN /\ state' = [state EXCEPT !.volume = NewVolume(op[c])]
            /\ Finish(c, [op[c] EXCEPT !.volume = NewVolume(op[c])],
                      Ret("Ok", <<>>, <<>>))
            /\ UNCHANGED <<request_id, sent>>
       ELSE /\ BeginCall(c, [op[c] EXCEPT !.volume = NewVolume(op[c])], "volume")
            /\ UNCHANGED state
    /\ UNCHANGED <<child, reader, writer, lockOwner, audio_tx, spectrum_data,
                   failed, procs, spawned, socketFile, mpvMode, inbox, appVars>>

\* the local volume is updated whatever the command's outcome
AfterSetVolume(c) ==
    /\ pc[c] = "ret"
    /\ op[c].name \in VolumeOps
    /\ state' = [state EXCEPT !.volume =
                                  VolumeAfter(state.volume, op[c].volume, op[c].res)]
    /\ Finish(c, op[c], Ret("Ok", <<>>, <<>>))
    /\ UNCHANGED <<child, reader, writer, request_id, lockOwner, audio_tx,
                   spectrum_data, failed, procs, spawned, socketFile, mpvMode,
                   inbox, sent, appVars>>

\* ------------------------------------------------------------ get_metadata
GetMetadata(c) ==
    /\ pc[c] = "locked"
    /\ op[c].name = "get_metadata"
    /\ IdsLeft(op[c].name)
    /\ IF reader = 0 \/ writer = 0
       THEN /\ Finish(c, op[c], Ret("None", <<>>, <<>>))
            /\ UNCHANGED <<request_id, sent>>
       ELSE BeginCall(c, [op[c] EXCEPT !.stage = 1], "media-title")
    /\ UNCHANGED <<child, reader, writer, state, lockOwner, audio_tx,
                   spectrum_data, failed, procs, spawned, socketFile, mpvMode,
                   inbox, appVars>>

\* if let Ok(Value::String(title)) = title_result, and title is not empty
AfterMediaTitle(c) ==
    /\ pc[c] = "ret"
    /\ op[c].name = "get_metadata"
    /\ op[c].stage = 1
    /\ LET r == op[c].res
           s == r.data.s
       IN IF r.kind = "ok" /\ r.data.t = "str" /\ s # <<>>
          THEN /\ IF SepIndex(s) # 0
                  THEN /\ state' = [state EXCEPT !.artist = SplitArtist(s),
                                                 !.title = SplitTitle(s)]
                       /\ Finish(c, op[c], Ret("Some", SplitArtist(s), SplitTitle(s)))
                  ELSE /\ state' = [state EXCEPT !.title = s]
                       /\ Finish(c, op[c], Ret("Some", <<>>, s))
               /\ UNCHANGED <<request_id, sent>>
          ELSE /\ BeginCall(c, [op[c] EXCEPT !.stage = 2], "metadata")
               /\ UNCHANGED state
    /\ UNCHANGED <<child, reader, writer, lockOwner, audio_tx, spectrum_data,
                   failed, procs, spawned, socketFile, mpvMode, inbox, appVars>>

\* Option::unwrap_or_default on a string
OrEmpty(v) == IF v = NoStr THEN <<>> ELSE v

\* faulty variant: the error of the last command goes to the caller
NoMetadataOrError(res) ==
    IF res.kind = "ok" THEN Ret("None", <<>>, <<>>) ELSE Ret("Err", <<>>, <<>>)

\* the closing Ok(None), whatever the last command came to
NoMetadata(res) == Ret("None", <<>>, <<>>)

\* if let Ok(Value::Object(map)) = metadata
AfterMetadata(c) ==
    /\ pc[c] = "ret"
    /\ op[c].name = "get_metadata"
    /\ op[c].stage = 2
    /\ LET r == op[c].res
           title == ObjTitle(r.data)
           artist == ObjArtist(r.data)
       IN IF r.kind = "ok" /\ r.data.t = "obj"
          THEN IF title # NoStr /\ SepIndex(title) # 0
               THEN /\ state' = [state EXCEPT !.artist = SplitArtist(title),
                                              !.title = SplitTitle(title)]
                    /\ Finish(c, op[c],
                              Ret("Some", SplitArtist(title), SplitTitle(title)))
               ELSE /\ state' = [state EXCEPT !.title = title, !.artist = artist]
                    /\ IF title # NoStr \/ artist # NoStr
                       THEN Finish(c, op[c], Ret("Some", OrEmpty(artist), OrEmpty(title)))
                       ELSE Finish(c, op[c], NoMetadata(r))
          ELSE /\ Finish(c, op[c], NoMetadata(r))
               /\ UNCHANGED state
    /\ UNCHANGED <<child, reader, writer, request_id, lockOwner, audio_tx,
                   spectrum_data, failed, procs, spawned, socketFile, mpvMode,
                   inbox, sent, appVars>>

\* --------------------------------------------------------- get_audio_stats
\* stages: 1 = first RMS path, 2 = its peak, 3 = second RMS path, 4 = its peak,
\* 5 = playback-time
\* faulty variant: a paused session is queried all the same
AudioStatsOffUnlessPaused(k) ==
    k.reader = 0 \/ k.writer = 0 \/ ~k.state.playing

\* reader.is_none() || writer.is_none() || !state.playing || state.paused
AudioStatsOff(k) ==
    k.reader = 0 \/ k.writer = 0 \/ ~k.state.playing \/ k.state.paused

GetAudioStats(c) ==
    /\ pc[c] = "locked"
    /\ op[c].name = "get_audio_stats"
    /\ IdsLeft(op[c].name)
    /\ IF AudioStatsOff(Self)
       THEN /\ Finish(c, op[c], Ret("None", <<>>, <<>>))
            /\ UNCHANGED <<request_id, sent>>
       ELSE BeginCall(c, [op[c] EXCEPT !.stage = 1], "rms")
    /\ UNCHANGED <<child, reader, writer, state, lockOwner, audio_tx,
                   spectrum_data, failed, procs, spawned, socketFile, mpvMode,
                   inbox, appVars>>

AfterRms(c) ==
    /\ pc[c] = "ret"
    /\ op[c].name = "get_audio_stats"
    /\ op[c].stage \in {1, 3}
    /\ LET r == op[c].res IN
         IF r.kind = "ok" /\ r.data.t = "str" /\ ParsesF32(r.data.s)
         THEN BeginCall(c, [op[c] EXCEPT !.stage = op[c].stage + 1], "peak")
         ELSE IF op[c].stage = 1
              THEN BeginCall(c, [op[c] EXCEPT !.stage = 3], "rms")
              ELSE BeginCall(c, [op[c] EXCEPT !.stage = 5], "time")
    /\ UNCHANGED <<child, reader, writer, state, lockOwner, audio_tx,
                   spectrum_data, failed, procs, spawned, socketFile, mpvMode,
                   inbox, appVars>>

\* faulty variant: the peak is what was read, whatever it is
PeakAsRead(res) == res.data.s

\* if let Ok(Value::String(ps)) ... ps.parse::<f32>().unwrap_or(rms + 3.0),
\* else rms + 3.0
PeakOf(res) ==
    IF res.kind = "ok" /\ res.data.t = "str" /\ ParsesF32(res.data.s)
    THEN res.data.s
    ELSE <<"rms+3">>

\* the peak read or, if it fails, rms + 3 dB: Some((rms, peak)) either way
AfterPeak(c) ==
    /\ pc[c] = "ret"
    /\ op[c].name = "get_audio_stats"
    /\ op[c].stage \in {2, 4}
    /\ Finish(c, op[c], Ret("Some", <<"real">>, PeakOf(op[c].res)))
    /\ UNCHANGED <<child, reader, writer, request_id, state, lockOwner,
                   audio_tx, spectrum_data, failed, procs, spawned, socketFile,
                   mpvMode, inbox, sent, appVars>>

\* levels derived from playback-time when it is a number
AfterPlaybackTime(c) ==
    /\ pc[c] = "ret"
    /\ op[c].name = "get_audio_stats"
    /\ op[c].stage = 5
    /\ IF op[c].res.kind = "ok" /\ op[c].res.data.t = "num"
       THEN Finish(c, op[c], Ret("Some", <<"synthetic">>, <<>>))
       ELSE Finish(c, op[c], Ret("None", <<>>, <<>>))
    /\ UNCHANGED <<child, reader, writer, request_id, state, lockOwner,
                   audio_tx, spectrum_data, failed, procs, spawned, socketFile,
                   mpvMode, inbox, sent, appVars>>

\* -------------------------------------------------------- the mpv process
\* mpv creates its IPC socket while play waits for it, or after play has
\* looked for it the last time and before the process is killed
MpvCreateSocket ==
    /\ mpvMode = "live"
    /\ ~socketFile
    /\ \E c \in Ctx : pc[c] \in {"play_connect", "play_reap"}
    /\ socketFile' = TRUE
    /\ UNCHANGED <<child, reader, writer, request_id, state, lockOwner, pc, op,
                   audio_tx, spectrum_data, failed, procs, spawned, mpvMode,
                   inbox, sent, appVars>>

\* the command a pending call has written
CmdOf(o) ==
    CASE o.name = "toggle_pause" -> "pause"
      [] o.name = "get_metadata" /\ o.stage = 1 -> "media-title"
      [] o.name = "get_metadata" -> "metadata"
      [] o.name = "get_audio_stats" /\ o.stage \in {1, 3} -> "rms"
      [] o.name = "get_audio_stats" /\ o.stage \in {2, 4} -> "peak"
      [] o.name = "get_audio_stats" -> "time"
      [] OTHER -> "volume"

\* the data mpv returns for a command
DataFor(cmd) ==
    CASE cmd = "media-title" -> {StrV(<<"A", "-", "T">>), StrV(<<"T">>), StrV(<<>>)}
      [] cmd = "metadata" -> {ObjV(<<"A", "-", "T">>, NoStr, NoStr),
                              ObjV(NoStr, <<"T">>, <<"A">>),
                              ObjV(NonStr, <<"T">>, NoStr),
                              ObjV(NoStr, NoStr, NoStr)}
      [] cmd \in {"rms", "peak"} -> {StrV(<<"7">>), StrV(<<"T">>)}
      [] cmd = "time" -> {NumV}
      [] OTHER -> {Null}

\* every string of at most MaxTitle tokens: words "A", "T" and the separator
Titles == UNION {[1..n -> {"A", "T", "-"}] : n \in 0..MaxTitle}

\* the data of an mpv whose media-title may be any such string
TitleDataFor(cmd) ==
    IF cmd = "media-title" THEN {StrV(t) : t \in Titles} ELSE DataFor(cmd)

\* the lines that mpv may answer the request with id rid and command cmd with
TitleReplies(rid, cmd) ==
    {Line(TRUE, rid, "success", d, NoField) : d \in TitleDataFor(cmd)}
    \cup {Line(TRUE, rid, "property unavailable", Null, NoField)}

\* the lines mpv may answer the request with id rid and command cmd with
Replies(rid, cmd) ==
    {Line(TRUE, rid, "success", d, NoField) : d \in DataFor(cmd)}
    \cup {Line(TRUE, rid, NoField, Null, NoField),
          Line(TRUE, rid, "property unavailable", Null, NoField)}

Pending == {c \in Ctx : pc[c] = "call_read"}

\* lines that answer no pending call: junk, events (with or without an id), a
\* line without request_id, a late answer to the request before
Noise ==
    {Garbage, Line(TRUE, NoId, NoField, Null, "ev"),
     Line(TRUE, NoId, "success", Null, NoField)}
    \cup {Line(TRUE, op[c].rid, "success", Null, "ev") : c \in Pending}
    \cup {Line(TRUE, op[c].rid - 1, "success", Null, NoField) :
            c \in {d \in Pending : op[d].rid > FirstRequestId}}

\* mpv answers the request of a pending call
MpvRespond ==
    /\ mpvMode = "live"
    /\ Len(inbox) < MaxInbox
    /\ \E c \in Pending :
         \E line \in Replies(op[c].rid, CmdOf(op[c])) : inbox' = Append(inbox, line)
    /\ UNCHANGED <<child, reader, writer, request_id, state, lockOwner, pc, op,
                   audio_tx, spectrum_data, failed, procs, spawned, socketFile,
                   mpvMode, sent, appVars>>

\* that mpv answers the request of a pending call, once
MpvRespondTitle ==
    /\ mpvMode = "live"
    /\ inbox = <<>>
    /\ \E c \in Pending :
         \E line \in TitleReplies(op[c].rid, CmdOf(op[c])) :
             inbox' = Append(inbox, line)
    /\ UNCHANGED <<child, reader, writer, request_id, state, lockOwner, pc, op,
                   audio_tx, spectrum_data, failed, procs, spawned, socketFile,
                   mpvMode, sent, appVars>>

\* the process the controller is connected to, as far as it has got
ThisProc == IF mpvProc.pid = writer THEN mpvProc ELSE [NoProc EXCEPT !.pid = writer]

\* mpv reads the request of the waiting call and executes or rejects it: a
\* cycle pause it executes flips its pause state; the answer is owed
MpvAccept ==
    /\ mpvMode = "live"
    /\ \E c \in Pending, done \in BOOLEAN :
         /\ ThisProc.read < op[c].rid
         /\ mpvProc' = [ThisProc EXCEPT
                           !.read = op[c].rid,
                           !.paused = IF CmdOf(op[c]) = "pause" /\ done
                                      THEN ~@ ELSE @,
                           !.owed = @ \cup {<<op[c].rid, CmdOf(op[c]), done>>}]
    /\ UNCHANGED <<child, reader, writer, request_id, state, lockOwner, pc, op,
                   audio_tx, spectrum_data, failed, procs, spawned, socketFile,
                   mpvMode, inbox, sent, app, update_rx, worker, calc>>

\* mpv answers a request it owes an answer, in time or after the call that
\* made it has ended; what it writes while no call reads waits for the next
MpvAnswer ==
    /\ mpvMode = "live"
    /\ mpvProc.pid = writer
    /\ Pending # {}
    /\ Len(inbox) < MaxInbox
    /\ \E q \in mpvProc.owed :
         /\ \E line \in Replies(q[1], q[2]) :
              /\ IsRejected(MpvResponse(line)) = ~q[3]
              /\ inbox' = Append(inbox, line)
         /\ mpvProc' = [mpvProc EXCEPT
                           !.owed = @ \ {q},
                           !.late = IF \E c \in Pending : op[c].rid = q[1]
                                    THEN @ ELSE @ \cup {q[1]}]
    /\ UNCHANGED <<child, reader, writer, request_id, state, lockOwner, pc, op,
                   audio_tx, spectrum_data, failed, procs, spawned, socketFile,
                   mpvMode, sent, app, update_rx, worker, calc>>

\* a line read outside a call is never looked at again once a call discards
\* it, so the model lets such lines arrive while a call reads
MpvEmit ==
    /\ mpvMode = "live"
    /\ Pending # {}
    /\ Len(inbox) < MaxInbox
    /\ \E line \in Noise : inbox' = Append(inbox, line)
    /\ UNCHANGED <<child, reader, writer, request_id, state, lockOwner, pc, op,
                   audio_tx, spectrum_data, failed, procs, spawned, socketFile,
                   mpvMode, sent, appVars>>

\* mpv stops talking for good but keeps the connection open
MpvHang ==
    /\ mpvMode = "live"
    /\ Pending # {}
    /\ mpvMode' = "hung"
    /\ UNCHANGED <<child, reader, writer, request_id, state, lockOwner, pc, op,
                   audio_tx, spectrum_data, failed, procs, spawned, socketFile,
                   inbox, sent, appVars>>

\* mpv exits: its end of the connection closes
MpvExit ==
    /\ mpvMode = "live"
    /\ \E c \in Ctx : pc[c] \in {"locked", "play_connect", "call_read"}
    /\ mpvMode' = "dead"
    /\ UNCHANGED <<child, reader, writer, request_id, state, lockOwner, pc, op,
                   audio_tx, spectrum_data, failed, procs, spawned, socketFile,
                   inbox, sent, appVars>>

\* ----------------------------------------------------------- specification
\* send_command_with_timeout reading, and the return of the operation
CallStep(c) ==
    \/ ReadLine(c)
    \/ ReadClosed(c)
    \/ ReadError(c)
    \/ ReadTimeout(c)
    \/ Return(c)

\* one step of context c inside the controller
Step(c) ==
    \/ MetadataWorkerLocked(c)
    \/ AudioWorkerLocked(c)
    \/ DoStop(c)
    \/ PlayBegin(c)
    \/ PlayPoll(c)
    \/ PlayConnect(c)
    \/ PlayReap(c)
    \/ PlayFinish(c)
    \/ TogglePause(c)
    \/ AfterTogglePause(c)
    \/ GetMetadata(c)
    \/ AfterMediaTitle(c)
    \/ AfterMetadata(c)
    \/ GetAudioStats(c)
    \/ AfterRms(c)
    \/ AfterPeak(c)
    \/ AfterPlaybackTime(c)
    \/ CallStep(c)

Mpv ==
    \/ MpvCreateSocket
    \/ MpvRespond
    \/ MpvEmit
    \/ MpvHang
    \/ MpvExit

\* the UI path, holding the lock, dispatches the command of the key event
UIDispatch == \E o \in UIOps : UICommand(o)

\* the program: the UI path and the two pollers around one controller
Next ==
    \/ UIIssue
    \/ UIDispatch
    \/ \E p \in Pollers : Tick(p)
    \/ \E c \in Ctx : Step(c)
    \/ \E c \in Ctx : Cancel(c)
    \/ Mpv

Spec == Init /\ [][Next]_vars

\* the program with its scheduling: every context that can step does, the
\* metadata poller's 500 ms timer fires; mpv owes nothing
LiveSpec ==
    /\ Spec
    /\ \A c \in Ctx : WF_vars(Step(c))
    /\ WF_vars(Cancel("meta"))
    /\ WF_vars(UIDispatch)

\* one step of the single caller inside the controller
ApiStep(c) ==
    \/ DoStop(c)
    \/ PlayBegin(c)
    \/ PlayPoll(c)
    \/ PlayConnect(c)
    \/ PlayReap(c)
    \/ PlayFinish(c)
    \/ TogglePause(c)
    \/ AfterTogglePause(c)
    \/ SetVolume(c)
    \/ AfterSetVolume(c)
    \/ GetMetadata(c)
    \/ AfterMediaTitle(c)
    \/ AfterMetadata(c)
    \/ GetAudioStats(c)
    \/ AfterRms(c)
    \/ AfterPeak(c)
    \/ AfterPlaybackTime(c)
    \/ CallStep(c)

\* the controller under one caller that owns it and invokes any operation, with
\* an mpv that answers, stays silent or exits
ApiNext ==
    \/ \E o \in ApiOps : ApiCall(o)
    \/ ApiStep("ui")
    \/ MpvCreateSocket
    \/ MpvRespond
    \/ MpvExit

ApiSpec == Init /\ [][ApiNext]_vars

\* what the owner of the visualizer invokes
SpectrumCalls == {NewOp(n, 0) : n \in {"play", "stop", "toggle_pause",
                                        "get_audio_stats"}}

\* one step of that owner inside the controller
SpectrumStep(c) ==
    \/ DoStop(c)
    \/ PlayBegin(c)
    \/ PlayPoll(c)
    \/ PlayConnect(c)
    \/ PlayReap(c)
    \/ PlayFinish(c)
    \/ TogglePause(c)
    \/ AfterTogglePause(c)
    \/ GetAudioStats(c)
    \/ AfterRms(c)
    \/ AfterPeak(c)
    \/ AfterPlaybackTime(c)
    \/ ReadLine(c)
    \/ ReadClosed(c)
    \/ ReadError(c)
    \/ ReadTimeout(c)
    \/ SpectrumReturn(c)
    \/ UpdateSpectrum(c)

\* the controller under App, which plays, stops, pauses and on every tick
\* feeds the visualizer from get_audio_stats
SpectrumNext ==
    \/ \E o \in SpectrumCalls : ApiCall(o)
    \/ SpectrumStep("ui")
    \/ MpvCreateSocket
    \/ MpvRespond
    \/ MpvExit

SpectrumSpec == Init /\ [][SpectrumNext]_vars

\* what the owner of the controller does with it over its life
LifeCalls == {NewOp(n, 0) : n \in {"play", "stop", "toggle_pause", "drop"}}

\* one step of that owner inside the controller
LifeStep(c) ==
    \/ DoStop(c)
    \/ PlayBegin(c)
    \/ PlayPoll(c)
    \/ PlayConnect(c)
    \/ PlayReap(c)
    \/ PlayFinish(c)
    \/ TogglePause(c)
    \/ AfterTogglePause(c)
    \/ DropController(c)
    \/ CallStep(c)

\* the controller from construction to destruction under one owner
LifeNext ==
    \/ \E o \in LifeCalls : ApiCall(o)
    \/ LifeStep("ui")
    \/ MpvCreateSocket
    \/ MpvRespond
    \/ MpvExit

LifeSpec == Init /\ [][LifeNext]_vars

\* one step of the volume-watching caller inside the controller
VolStep(c) ==
    \/ DoStop(c)
    \/ PlayBegin(c)
    \/ PlayPoll(c)
    \/ PlayConnect(c)
    \/ PlayReap(c)
    \/ PlayFinish(c)
    \/ SetVolume(c)
    \/ AfterSetVolume(c)
    \/ ReadLine(c)
    \/ ReadClosed(c)
    \/ ReadError(c)
    \/ ReadTimeout(c)
    \/ VolReturn(c)

\* the controller under one caller that plays, stops and sets the volume
VolNext ==
    \/ \E o \in VolCalls : VolCall(o)
    \/ VolStep("ui")
    \/ MpvCreateSocket
    \/ MpvRespond
    \/ MpvExit

VolSpec == Init /\ [][VolNext]_vars

\* what a caller that only follows the stream's metadata invokes
MetaCalls == {NewOp(n, 0) : n \in {"play", "stop", "get_metadata"}}

\* one step of that caller inside the controller
MetaStep(c) ==
    \/ DoStop(c)
    \/ PlayBegin(c)
    \/ PlayPoll(c)
    \/ PlayConnect(c)
    \/ PlayReap(c)
    \/ PlayFinish(c)
    \/ GetMetadata(c)
    \/ AfterMediaTitle(c)
    \/ AfterMetadata(c)
    \/ CallStep(c)

\* the controller under that caller, with an mpv that reports any media-title
MetaNext ==
    \/ \E o \in MetaCalls : ApiCall(o)
    \/ MetaStep("ui")
    \/ MpvCreateSocket
    \/ MpvRespondTitle
    \/ MpvExit

MetaSpec == Init /\ [][MetaNext]_vars

\* what the UI path invokes where the process is followed
ProcCalls == {NewOp(n, 0) : n \in {"play", "stop", "toggle_pause"}}

\* one step of the UI path or of the metadata poller inside the controller
ProcStep(c) ==
    \/ MetadataWorkerLocked(c)
    \/ DoStop(c)
    \/ PlayBegin(c)
    \/ PlayConnect(c)
    \/ PlayFinish(c)
    \/ TogglePause(c)
    \/ AfterTogglePause(c)
    \/ GetMetadata(c)
    \/ AfterMediaTitle(c)
    \/ AfterMetadata(c)
    \/ ReadLine(c)
    \/ ReadTimeout(c)
    \/ Return(c)

\* the controller under the UI path and the metadata poller, with an mpv that
\* opens its socket while play waits and stays alive, executes what it reads and
\* answers in its own time
ProcNext ==
    \/ \E o \in ProcCalls : ApiCall(o)
    \/ Tick("meta")
    \/ \E c \in {"ui", "meta"} : ProcStep(c)
    \/ Cancel("meta")
    \/ MpvCreateSocket
    \/ MpvAccept
    \/ MpvAnswer

ProcSpec == Init /\ [][ProcNext]_vars

\* ---------------------------------------------------------------------- App
\* the channel lists the API may return: ids 1..MaxChannels, none twice
ChannelLists ==
    {l \in UNION {[1..n -> 1..MaxChannels] : n \in 0..MaxChannels} :
        \A i, j \in DOMAIN l : i # j => l[i] # l[j]}

\* App::init and the head of run_app: the channels are fetched, the first is
\* selected, the worker is given the initial request
AppInit ==
    /\ ControllerInit
    /\ calc = NoCalc
    /\ update_rx = <<>>
    /\ worker = NoWorker
    /\ app \in {[NewApp EXCEPT !.channels = l,
                               !.selected = IF l = <<>> THEN 0 ELSE 1] :
                   l \in ChannelLists}

\* current_channel (when set) is an index into channels
InBounds(a) == a.current_channel <= Len(a.channels)

\* App::current_channel, its id: self.channels[i]
CurrentId(a) ==
    IF a.current_channel = 0 THEN 0 ELSE a.channels[a.current_channel]

\* App::selected_channel_index: sorted_indices.get(selected)
SelectedChannelIndex(a) ==
    IF a.selected \in 1..Len(a.channels) THEN a.selected ELSE 0

build_metadata_request(a) == MetadataRequest(CurrentId(a), a.show_artwork)

\* run_app is in its loop
Alive == ~app.exited /\ ~app.panicked

\* run_app once handle_action has returned Ok with App as a: the request is
\* rebuilt, which indexes channels, and sent if it differs
Handled(a) ==
    IF InBounds(a)
    THEN /\ app' = a
         /\ worker' = [worker EXCEPT !.req_rx = build_metadata_request(a)]
    ELSE /\ app' = [a EXCEPT !.panicked = TRUE]
         /\ UNCHANGED worker

\* what load_artwork may leave in artwork_state for channel id: its image, the
\* image held before (decoding failed), nothing (the fetch failed)
Loaded(a, id) == {id, a.artwork, 0}

\* Action::SelectStation: play_current_station
SelectStation ==
    /\ Alive
    /\ LET idx == SelectedChannelIndex(app) IN
         IF idx = 0
         THEN Handled(app)
         ELSE \E played \in BOOLEAN :
                IF played
                THEN \E art \in (IF app.show_artwork
                                 THEN Loaded(app, app.channels[idx])
                                 ELSE {app.artwork}) :
                       Handled([app EXCEPT !.playing = app.channels[idx],
                                           !.current_channel = idx,
                                           !.stream_title = 0,
                                           !.current_song = 0,
                                           !.song_history = 0,
                                           !.artwork = art])
                ELSE /\ app' = [app EXCEPT !.playing = 0, !.exited = TRUE]
                     /\ UNCHANGED worker
    /\ UNCHANGED <<child, reader, writer, request_id, state, lockOwner, pc, op,
                   audio_tx, procs, spawned, socketFile, mpvMode, inbox, sent,
                   spectrum_data, failed, update_rx, calc, mpvProc>>

\* Action::NextStation
NextStation ==
    /\ Alive
    /\ LET len == Len(app.channels)
           current == IF app.selected = 0 THEN 1 ELSE app.selected
       IN IF len > 0
          THEN Handled([app EXCEPT !.selected = (current % len) + 1])
          ELSE Handled(app)
    /\ UNCHANGED <<child, reader, writer, request_id, state, lockOwner, pc, op,
                   audio_tx, procs, spawned, socketFile, mpvMode, inbox, sent,
                   spectrum_data, failed, update_rx, calc, mpvProc>>

\* Action::Refresh: the channels are replaced if the API answers
Refresh ==
    /\ Alive
    /\ \E l \in ChannelLists : Handled([app EXCEPT !.channels = l])
    /\ UNCHANGED <<child, reader, writer, request_id, state, lockOwner, pc, op,
                   audio_tx, procs, spawned, socketFile, mpvMode, inbox, sent,
                   spectrum_data, failed, update_rx, calc, mpvProc>>

\* Action::ToggleArtwork
ToggleArtwork ==
    /\ Alive
    /\ IF ~app.show_artwork /\ app.current_channel # 0
       THEN \E art \in Loaded(app, CurrentId(app)) :
              Handled([app EXCEPT !.show_artwork = TRUE, !.artwork = art])
       ELSE Handled([app EXCEPT !.show_artwork = ~@])
    /\ UNCHANGED <<child, reader, writer, request_id, state, lockOwner, pc, op,
                   audio_tx, procs, spawned, socketFile, mpvMode, inbox, sent,
                   spectrum_data, failed, update_rx, calc, mpvProc>>

\* an AppUpdate: its kind, the channel it was made for, and the channel whose
\* songs, title or image it carries
AppUpdate(kind, id, of) == [kind |-> kind, channel_id |-> id, of |-> of]

\* update_tx.send, or nothing when the fetch behind it failed
Sends(u) ==
    \/ UNCHANGED update_rx
    \/ Len(update_rx) < MaxUpdates /\ update_rx' = Append(update_rx, u)

\* metadata_worker wakes on its interval or on a new request and reads it;
\* the worker runs as long as run_app does, and req lives for one pass
WorkerWake ==
    /\ Alive
    /\ worker.stage = "wait"
    /\ LET req == worker.req_rx IN
         worker' = IF req.channel_id = 0
                   THEN [worker EXCEPT !.last_artwork_url = 0]
                   ELSE [worker EXCEPT !.req = req, !.stage = "songs"]
    /\ UNCHANGED <<child, reader, writer, request_id, state, lockOwner, pc, op,
                   audio_tx, procs, spawned, socketFile, mpvMode, inbox, sent,
                   spectrum_data, failed, app, update_rx, calc, mpvProc>>

\* metadata_worker: get_songs for the channel of its request
WorkerSongs ==
    /\ Alive
    /\ worker.stage = "songs"
    /\ Sends(AppUpdate("Songs", worker.req.channel_id, worker.req.channel_id))
    /\ worker' = [worker EXCEPT !.stage = "artwork"]
    /\ UNCHANGED <<child, reader, writer, request_id, state, lockOwner, pc, op,
                   audio_tx, procs, spawned, socketFile, mpvMode, inbox, sent,
                   spectrum_data, failed, app, calc, mpvProc>>

\* metadata_worker: the artwork of the channel of its request
WorkerArtwork ==
    /\ Alive
    /\ worker.stage = "artwork"
    /\ LET id == worker.req.channel_id IN
         IF worker.req.show_artwork
         THEN IF worker.last_artwork_url # id
              THEN /\ worker' = [worker EXCEPT !.stage = "title",
                                               !.last_artwork_url = id]
                   /\ Sends(AppUpdate("Artwork", id, id))
              ELSE /\ worker' = [worker EXCEPT !.stage = "title"]
                   /\ UNCHANGED update_rx
         ELSE /\ worker' = [worker EXCEPT !.stage = "title",
                                          !.last_artwork_url = 0]
              /\ UNCHANGED update_rx
    /\ UNCHANGED <<child, reader, writer, request_id, state, lockOwner, pc, op,
                   audio_tx, procs, spawned, socketFile, mpvMode, inbox, sent,
                   spectrum_data, failed, app, calc, mpvProc>>

\* metadata_worker: the title of the stream the player plays now, sent under
\* the channel of its request
WorkerTitle ==
    /\ Alive
    /\ worker.stage = "title"
    /\ IF app.playing # 0
       THEN Sends(AppUpdate("StreamTitle", worker.req.channel_id, app.playing))
       ELSE UNCHANGED update_rx
    /\ worker' = [worker EXCEPT !.stage = "wait", !.req = NoWorker.req]
    /\ UNCHANGED <<child, reader, writer, request_id, state, lockOwner, pc, op,
                   audio_tx, procs, spawned, socketFile, mpvMode, inbox, sent,
                   spectrum_data, failed, app, calc, mpvProc>>

\* faulty variant: every update is applied
AppliesAlways(u, a) == TRUE

\* the conditions under which run_app applies update u to App a
Applies(u, a) ==
    CASE u.kind = "Songs" -> CurrentId(a) = u.channel_id
      [] u.kind = "StreamTitle" -> u.channel_id = CurrentId(a)
      [] u.kind = "Artwork" -> a.show_artwork /\ CurrentId(a) = u.channel_id

\* App a with update u applied
Applied(u, a) ==
    CASE u.kind = "Songs" -> [a EXCEPT !.current_song = u.of,
                                       !.song_history = u.of]
      [] u.kind = "StreamTitle" -> [a EXCEPT !.stream_title = u.of]
      [] u.kind = "Artwork" -> [a EXCEPT !.artwork = u.of]

\* run_app: while let Ok(update) = update_rx.try_recv(), one update
ApplyUpdate ==
    /\ Alive
    /\ update_rx # <<>>
    /\ update_rx' = Tail(update_rx)
    /\ LET u == Head(update_rx) IN
         app' = IF Applies(u, app) THEN Applied(u, app) ELSE app
    /\ UNCHANGED <<child, reader, writer, request_id, state, lockOwner, pc, op,
                   audio_tx, procs, spawned, socketFile, mpvMode, inbox, sent,
                   spectrum_data, failed, worker, calc, mpvProc>>

\* run_app with its metadata worker, under the keys that choose, play and
\* refresh stations
AppNext ==
    \/ SelectStation
    \/ NextStation
    \/ Refresh
    \/ ToggleArtwork
    \/ WorkerWake
    \/ WorkerSongs
    \/ WorkerArtwork
    \/ WorkerTitle
    \/ ApplyUpdate

AppSpec == AppInit /\ [][AppNext]_vars

\* ------------------------------------------------------- App: volume keys
\* set_volume as App sees it: the call returns Ok with state.volume at the
\* clamped value, playing or not, answered or not
PlayerSetVolume(v) == [state EXCEPT !.volume = ClampVolume(v)]

\* the keys handled so far, the last two kept: the key, and the volume and
\* mute flag it found
Pressed(key) ==
    LET entry == [key |-> key, volume |-> state.volume,
                  is_muted |-> app.is_muted]
    IN [calc EXCEPT !.fn = "keys",
                    !.in = IF calc.in = <<>> THEN <<entry>>
                           ELSE <<calc.in[Len(calc.in)], entry>>]

\* Action::VolumeUp
ActionVolumeUp ==
    /\ IF app.is_muted
       THEN /\ app' = [app EXCEPT !.is_muted = FALSE]
            /\ state' = PlayerSetVolume(app.last_volume)
       ELSE /\ state' = PlayerSetVolume(VolumeUp(state.volume))
            /\ UNCHANGED app
    /\ calc' = Pressed("VolumeUp")
    /\ UNCHANGED <<child, reader, writer, request_id, lockOwner, pc, op,
                   audio_tx, procs, spawned, socketFile, mpvMode, inbox, sent,
                   spectrum_data, failed, update_rx, worker, mpvProc>>

\* Action::VolumeDown
ActionVolumeDown ==
    /\ state' = PlayerSetVolume(VolumeDown(state.volume))
    /\ app' = IF state'.volume = 0 THEN [app EXCEPT !.is_muted = TRUE] ELSE app
    /\ calc' = Pressed("VolumeDown")
    /\ UNCHANGED <<child, reader, writer, request_id, lockOwner, pc, op,
                   audio_tx, procs, spawned, socketFile, mpvMode, inbox, sent,
                   spectrum_data, failed, update_rx, worker, mpvProc>>

\* Action::ToggleMute
ActionToggleMute ==
    /\ IF app.is_muted
       THEN /\ app' = [app EXCEPT !.is_muted = FALSE]
            /\ state' = PlayerSetVolume(app.last_volume)
       ELSE /\ app' = [app EXCEPT !.last_volume = state.volume,
                                  !.is_muted = TRUE]
            /\ state' = PlayerSetVolume(0)
    /\ calc' = Pressed("ToggleMute")
    /\ UNCHANGED <<child, reader, writer, request_id, lockOwner, pc, op,
                   audio_tx, procs, spawned, socketFile, mpvMode, inbox, sent,
                   spectrum_data, failed, update_rx, worker, mpvProc>>

\* the volume and mute keys in any order
KeysNext ==
    \/ ActionVolumeUp
    \/ ActionVolumeDown
    \/ ActionToggleMute

KeysSpec == Init /\ [][KeysNext]_vars

\* ------------------------------------------------------------------ numbers
\* an f64 or f32: a finite value in thousandths, an infinity or NaN
Num(v) == [k |-> "num", v |-> v]
Inf == [k |-> "inf", v |-> 0]
NaN == [k |-> "nan", v |-> 0]

\* playback-time 1e308: a finite f64 that serde_json parses
Huge == [k |-> "huge", v |-> 0]

\* t * k for a factor k > 1.8, given in tenths: 1e308 * k is beyond f64::MAX
TimesFactor(t, k) == IF t.k = "huge" THEN Inf ELSE Num((t.v * k) \div 10)

\* sin on [0, pi], in thousandths (Bhaskara's rational approximation)
SinHalf(x) ==
    (16 * x * (3142 - x)) \div ((5 * 3142 * 3142 - 4 * x * (3142 - x)) \div 1000)

\* f64::sin: NaN for an infinite argument
Sin(x) ==
    IF x.k # "num" THEN NaN
    ELSE LET m == x.v % 6284
         IN Num(IF m <= 3142 THEN SinHalf(m) ELSE 0 - SinHalf(m - 3142))

\* f64::cos
Cos(x) == IF x.k # "num" THEN NaN ELSE Sin(Num(x.v + 1571))

\* f64::abs
Abs(x) == IF x.k # "num" THEN x ELSE Num(IF x.v < 0 THEN 0 - x.v ELSE x.v)

\* x * n / d for a finite constant n / d
Scale(x, n, d) == IF x.k # "num" THEN x ELSE Num((x.v * n) \div d)

\* x * y
Mul(x, y) ==
    IF x.k = "num" /\ y.k = "num" THEN Num((x.v * y.v) \div 1000) ELSE NaN

\* x + y, neither an infinity of the other sign
Add(x, y) ==
    IF x.k = "num" /\ y.k = "num" THEN Num(x.v + y.v)
    ELSE IF x.k = "nan" \/ y.k = "nan" THEN NaN
    ELSE Inf

\* f32::clamp(lo, hi): NaN stays NaN
Clamp(x, lo, hi) ==
    IF x.k = "nan" THEN NaN
    ELSE IF x.k = "inf" \/ x.v > hi THEN Num(hi)
    ELSE IF x.v < lo THEN Num(lo)
    ELSE x

\* get_audio_stats, method 2: (rms, peak) from playback-time t
FallbackLevels(t) ==
    LET base == Add(Add(Scale(Sin(TimesFactor(t, 73)), 3, 10),
                        Scale(Cos(TimesFactor(t, 117)), 2, 10)), Num(500))
        pulse == Abs(Sin(TimesFactor(t, 25)))
        beat == Scale(Mul(pulse, pulse), 3, 10)
        variation == Scale(Sin(TimesFactor(t, 231)), 15, 100)
        rms == Add(Add(Add(Num(-12000), Scale(base, 8, 1)), Scale(beat, 6, 1)),
                   Scale(variation, 4, 1))
        peak == Add(Add(rms, Num(2000)),
                    Scale(Abs(Sin(TimesFactor(t, 314))), 3, 1))
    IN <<Clamp(rms, -18000, -3000), Clamp(peak, -15000, 0)>>

\* the playback-time values mpv may report: every tenth of a second up to
\* MaxTime, and 1e308
Times == {Num(100 * n) : n \in 0..MaxTime} \cup {Huge}

\* the fallback is about to be computed for one playback-time
LevelsInit ==
    /\ ControllerInit
    /\ app = NewApp
    /\ update_rx = <<>>
    /\ worker = NoWorker
    /\ calc \in {[fn |-> "levels", in |-> t, out |-> <<>>] : t \in Times}

\* get_audio_stats reaches method 2 with that playback-time, twice over
SynthesizeLevels ==
    /\ calc.fn = "levels"
    /\ Len(calc.out) < 2
    /\ calc' = [calc EXCEPT !.out = Append(@, FallbackLevels(calc.in))]
    /\ UNCHANGED <<child, reader, writer, request_id, state, lockOwner, pc, op,
                   audio_tx, procs, spawned, socketFile, mpvMode, inbox, sent,
                   spectrum_data, failed, app, update_rx, worker, mpvProc>>

LevelsNext == SynthesizeLevels

LevelsSpec == LevelsInit /\ [][LevelsNext]_vars

\* SpectrumData::decay on one bin and its peak, and on rms and peak
Decay(d, factor) ==
    [bin |-> Mul(d.bin, factor),
     peaks |-> Mul(d.peaks, Mul(factor, Num(980))),
     rms |-> Mul(d.rms, factor),
     peak |-> Mul(d.peak, factor)]

\* normalized values, 0.0 to 1.0 in tenths
Normalized == {Num(100 * n) : n \in 0..10}

\* the factors animate passes, and 1.0
Factors == {Num(850), Num(920), Num(1000)}

\* a bin and its peak, about to decay
DecayInit ==
    /\ ControllerInit
    /\ app = NewApp
    /\ update_rx = <<>>
    /\ worker = NoWorker
    /\ calc \in {[fn |-> "decay",
                  in |-> <<[bin |-> b, peaks |-> p, rms |-> b, peak |-> p], f>>,
                  out |-> <<>>] : b \in Normalized, p \in Normalized,
                                  f \in Factors}

\* SpectrumData::animate: self.decay(factor)
Animate ==
    /\ calc.fn = "decay"
    /\ calc.out = <<>>
    /\ calc' = [calc EXCEPT !.out = <<Decay(calc.in[1], calc.in[2])>>]
    /\ UNCHANGED <<child, reader, writer, request_id, state, lockOwner, pc, op,
                   audio_tx, procs, spawned, socketFile, mpvMode, inbox, sent,
                   spectrum_data, failed, app, update_rx, worker, mpvProc>>

DecayNext == Animate

DecaySpec == DecayInit /\ [][DecayNext]_vars

\* ------------------------------------------------------------------ claims
\* C1: whenever the controller can be observed, and so after every public
\* operation, paused implies playing
PausedImpliesPlaying == state.paused => state.playing

\* toggle_pause has returned and left the controller paused
PausedAfterToggle ==
    /\ pc["ui"] = "done"
    /\ op["ui"].name = "toggle_pause"
    /\ state.paused

\* C2: when stop returns there is no reader, no writer, no child process
\* handle, no unreaped process, and playing is false, whatever plays and stops
\* came before
StopLeavesNothing ==
    \A c \in Ctx :
        (pc[c] = "done" /\ op[c].name = "stop") =>
            /\ reader = 0
            /\ writer = 0
            /\ child = 0
            /\ procs = {}
            /\ ~state.playing

\* stop has returned after as many plays as the model spawns processes for,
\* and after a command was written to the transport
StopAfterPlays ==
    /\ pc["ui"] = "done"
    /\ op["ui"].name = "stop"
    /\ spawned = MaxSpawn
    /\ sent # <<>>

\* a context reads line l off the transport in this step
Reads(c) == pc[c] = "call_read" /\ inbox # <<>> /\ inbox' = Tail(inbox)

\* the call of context c ends in this step with mpv's verdict: a value or an
\* error reported by mpv
Completes(c) ==
    /\ pc[c] = "call_read"
    /\ pc'[c] = "ret"
    /\ op'[c].res.kind \in {"ok", "rejected"}

\* the line as mpv wrote it is a JSON object carrying request_id n
Carries(l, n) == l.json /\ l.request_id = n

\* the contexts whose calls nothing cuts short from outside
Uncut == {"ui", "audio"}

\* C3: every call that has written its request eventually returns (with the
\* answer, a closed or failed transport, or a timeout), whatever mpv sends.
\* It does not hold: read_timeout bounds each single read_line, so a stream of
\* lines the loop skips keeps the call in its loop for ever
EveryCallReturns ==
    \A c \in Uncut : (pc[c] = "call_read") ~> (pc[c] = "ret")

\* C6: a call whose request is written to an mpv that stays silent and keeps
\* the connection open returns the timeout error, for that request
SilenceTimesOut ==
    \A c \in Uncut : \A n \in FirstRequestId..MaxReq :
        (pc[c] = "call_read" /\ op[c].rid = n /\ mpvMode = "hung" /\ inbox = <<>>)
            ~> (pc[c] = "ret" /\ op[c].rid = n /\ op[c].res.kind = "timeout")

\* the audio poller's call has timed out on a silent mpv
TimedOutOnSilence ==
    /\ pc["audio"] = "ret"
    /\ op["audio"].res.kind = "timeout"
    /\ mpvMode = "hung"

\* C4: a call with request id n is completed only by reading a line that
\* parses and carries request_id n; a line that does not parse, carries another
\* id, or carries none is read and dropped with the call still waiting
OnlyMatchingIdCompletes ==
    [][\A c \in Ctx :
          /\ Completes(c) => Reads(c) /\ Carries(Head(inbox), op[c].rid)
          /\ (Reads(c) /\ ~Carries(Head(inbox), op[c].rid)) =>
                 pc'[c] = "call_read" /\ op'[c] = op[c]
          /\ pc[c] = "call_read" => op[c].rid >= FirstRequestId]_vars

\* a waiting call is about to read the answer to an earlier request
ReadsOtherId ==
    \E c \in Ctx :
        /\ pc[c] = "call_read"
        /\ inbox # <<>>
        /\ Head(inbox).json
        /\ Head(inbox).event = NoField
        /\ Head(inbox).request_id >= FirstRequestId
        /\ Head(inbox).request_id # op[c].rid

\* C5: a line carrying an event field never completes a call, whatever
\* request_id, error or data it carries besides
EventNeverCompletes ==
    [][\A c \in Ctx :
          (Reads(c) /\ Head(inbox).json /\ Head(inbox).event # NoField) =>
              pc'[c] = "call_read" /\ op'[c] = op[c]]_vars

\* a waiting call is about to read an event that carries the call's own id
ReadsEventWithOwnId ==
    \E c \in Ctx :
        /\ pc[c] = "call_read"
        /\ inbox # <<>>
        /\ Head(inbox).event # NoField
        /\ Head(inbox).request_id = op[c].rid
        /\ Head(inbox).error = "success"

\* C7: the request ids written start at 1 and each is one more than the one
\* before: strictly increasing, none reused, across calls, timeouts and
\* reconnects
IdsStrictlyIncrease ==
    \A i \in 1..Len(sent) : sent[i] = FirstRequestId + (i - 1)

\* a call waits on the connection to the last process spawned, with an id
\* above the first
CallAfterReconnect ==
    \E c \in Ctx :
        /\ pc[c] = "call_read"
        /\ writer = MaxSpawn
        /\ op[c].rid > FirstRequestId

\* context c is inside a controller operation
InController(c) ==
    pc[c] \in {"locked", "play_connect", "play_reap", "play_sleep", "call_read",
               "ret", "done"}

\* C8: at most one of the three contexts is inside a controller operation, so
\* at most one call has its write and read loop in progress
StrictlySerialized ==
    /\ Cardinality({c \in Ctx : InController(c)}) <= 1
    /\ Cardinality(Pending) <= 1

\* a poller's call is in progress while the UI path waits and the other
\* poller has been turned away
OneInsideOthersOut ==
    /\ \E p \in Pollers : pc[p] = "call_read" /\ pc[CHOOSE q \in Pollers : q # p] = "skipped"
    /\ pc["ui"] = "wait"

\* C9: while another context holds the lock the audio poller does not get
\* in, does not queue for the lock and starts no operation: a tick that finds
\* the lock held changes nothing but the poller's own position
AudioPollSkipped ==
    [][(lockOwner \notin {"none", "audio"}) =>
          /\ pc'["audio"] \in {"idle", "skipped"}
          /\ op'["audio"] = NoOp
          /\ lockOwner' # "audio"
          /\ (pc'["audio"] # pc["audio"]) =>
                 UNCHANGED <<child, reader, writer, request_id, state,
                             lockOwner, op, audio_tx, procs, spawned,
                             socketFile, mpvMode, inbox, sent>>]_vars

\* the audio poller was turned away while the metadata poller's call waits
AudioSkippedDuringCall ==
    /\ pc["audio"] = "skipped"
    /\ lockOwner = "meta"
    /\ pc["meta"] = "call_read"

\* every operation of a poller gives the lock back
PollersRelease == []<>(lockOwner \notin Pollers)

\* the UI path holds the lock and its command has been dispatched
UIExecutes == lockOwner = "ui" /\ op["ui"].name \in {o.name : o \in UIOps}

PlayStopsFirst ==
    [][/\ Cardinality(procs) <= 1
       /\ Cardinality(procs') <= 1
       /\ spawned' # spawned =>
             /\ procs' = {spawned'}
             /\ child' = spawned'
             /\ reader' = 0
             /\ writer' = 0
             /\ ~state'.playing]_vars

\* play, invoked on a playing session, has spawned the next process
RespawnedOverSession ==
    /\ pc["ui"] = "play_connect"
    /\ op["ui"].name = "play"
    /\ op["ui"].pre.state.playing
    /\ child = spawned
    /\ spawned > 1

\* C12: when play returns an error, for whichever reason, the controller is
\* neither playing nor paused and holds no reader, no writer and no child
FailedPlayLeavesIdle ==
    \A c \in Ctx :
        (pc[c] = "done" /\ op[c].name = "play" /\ op[c].ret.k = "Err") =>
            /\ ~state.playing
            /\ ~state.paused
            /\ reader = 0
            /\ writer = 0
            /\ child = 0

\* play has failed after it was invoked on a session that was playing, paused
PlayFailedOverSession ==
    /\ pc["ui"] = "done"
    /\ op["ui"].name = "play"
    /\ op["ui"].ret.k = "Err"
    /\ op["ui"].pre.state.playing
    /\ op["ui"].pre.state.paused

\* the controller holds no session: no reader, no writer, no child
NoSession(k) == k.reader = 0 /\ k.writer = 0 /\ k.child = 0

\* C13: stop on a controller without a session returns Ok and changes no
\* field of the controller, and nothing of the processes and the transport;
\* the socket file is absent afterwards
StopWithoutSessionIsNoOp ==
    [][\A c \in Ctx :
          (pc[c] = "locked" /\ op[c].name = "stop" /\ pc'[c] = "done"
             /\ NoSession(Self)) =>
              /\ op'[c].ret.k = "Ok"
              /\ <<child', reader', writer', request_id', state'>>
                   = <<child, reader, writer, request_id, state>>
              /\ ~state.playing /\ ~state.paused
              /\ UNCHANGED <<procs, inbox, sent, mpvMode>>
              /\ ~socketFile']_vars

\* stop has returned after it was invoked on a controller without a session,
\* left by an earlier stop or failed play, whose volume and title are no longer
\* the initial ones
StoppedTwice ==
    /\ pc["ui"] = "done"
    /\ op["ui"].name = "stop"
    /\ NoSession(op["ui"].pre)
    /\ op["ui"].pre = Self
    /\ spawned > 0
    /\ state.volume # DefaultVolume
    /\ state.title # NoStr

\* the volume the call l asked for
Requested(l) ==
    CASE l.name = "set_volume" -> IF l.arg < 100 THEN l.arg ELSE 100
      [] l.name = "volume_up" -> IF l.volume + 5 < 100 THEN l.volume + 5 ELSE 100
      [] l.name = "volume_down" -> IF l.volume > 5 THEN l.volume - 5 ELSE 0
      [] OTHER -> DefaultVolume

\* C14: no step of play or stop changes state.volume, and the process play
\* spawns is started with the volume of the caller's last volume call, made
\* while playing or not (the default volume if there was none)
VolumeSurvivesPlayAndStop ==
    [][\A c \in Ctx :
          /\ (op[c].name \in {"play", "stop"} /\ pc[c] # "idle") =>
                state'.volume = state.volume
          /\ (op[c].name = "play" /\ spawned' # spawned) =>
                /\ op'[c].volume = state.volume
                /\ op'[c].volume = Requested(op[c].last)]_vars

\* play, invoked on a playing session after a volume_down, has started mpv at
\* the volume that call asked for, which is neither the default nor a bound
PlayedAtRequestedVolume ==
    /\ pc["ui"] = "done"
    /\ op["ui"].name = "play"
    /\ op["ui"].ret.k = "Ok"
    /\ op["ui"].pre.state.playing
    /\ op["ui"].last.name = "volume_down"
    /\ op["ui"].volume = DefaultVolume - VolumeStep

\* C15: toggle_pause returns Ok; invoked while not playing it leaves the
\* controller as it was, request id counter included; invoked while playing it
\* writes one command and leaves the PlaybackState as it was but for paused,
\* which is flipped exactly if the command completed with success
TogglePauseFlipsOnSuccessOnly ==
    \A c \in Ctx :
        (pc[c] = "done" /\ op[c].name = "toggle_pause") =>
            /\ op[c].ret.k = "Ok"
            /\ IF ~op[c].pre.state.playing
               THEN Self = op[c].pre /\ op[c].res = NoRes
               ELSE /\ request_id = op[c].pre.request_id + 1
                    /\ op[c].res.kind = "ok" =>
                          state = [op[c].pre.state EXCEPT !.paused = ~@]
                    /\ op[c].res.kind # "ok" => state = op[c].pre.state
                    /\ op[c].res.kind \in {"ok", "rejected", "timeout", "closed",
                                            "read_error", "write_error"}

\* toggle_pause has returned from a paused session after mpv rejected the
\* command
ToggleRejectedWhilePaused ==
    /\ pc["ui"] = "done"
    /\ op["ui"].name = "toggle_pause"
    /\ op["ui"].res.kind = "rejected"
    /\ op["ui"].pre.state.paused
    /\ state.paused

\* volume.min(100), in plain integers
Min100(v) == IF v < 100 THEN v ELSE 100

\* C16: set_volume(v) invoked while playing writes its command, returns Ok and
\* leaves state.volume = min(v, 100), whatever became of the command
SetVolumePlayingKeepsValue ==
    \A c \in Ctx :
        (pc[c] = "done" /\ op[c].name = "set_volume" /\ op[c].pre.state.playing) =>
            /\ op[c].ret.k = "Ok"
            /\ op[c].res # NoRes
            /\ request_id = op[c].pre.request_id + 1
            /\ state.volume = Min100(op[c].arg)

\* set_volume(255) has returned from a playing session whose command timed
\* out, with the local volume moved to 100
SetVolumeTimedOut ==
    /\ pc["ui"] = "done"
    /\ op["ui"].name = "set_volume"
    /\ op["ui"].pre.state.playing
    /\ op["ui"].res.kind = "timeout"
    /\ op["ui"].arg = 255
    /\ op["ui"].pre.state.volume # 100
    /\ state.volume = 100

\* C17: the step set_volume(v) takes when no session is playing writes
\* nothing, allocates no request id and changes state.volume to min(v, 100)
\* and nothing else
SetVolumeIdleIsLocal ==
    [][\A c \in Ctx :
          (/\ pc[c] = "locked"
           /\ op[c].name = "set_volume"
           /\ ~state.playing
           /\ pc'[c] # pc[c]) =>
              /\ pc'[c] = "done"
              /\ op'[c].ret.k = "Ok"
              /\ op'[c].res = NoRes
              /\ state' = [state EXCEPT !.volume = Min100(op[c].arg)]
              /\ UNCHANGED <<child, reader, writer, request_id, sent, inbox,
                             procs, spawned, socketFile, mpvMode>>]_vars

\* set_volume(255) has returned without a command, invoked after a session
\* had been started and was no longer playing
SetVolumeWhileIdle ==
    /\ pc["ui"] = "done"
    /\ op["ui"].name = "set_volume"
    /\ ~op["ui"].pre.state.playing
    /\ spawned > 0
    /\ op["ui"].arg = 255
    /\ op["ui"].res = NoRes
    /\ request_id = op["ui"].pre.request_id
    /\ op["ui"].pre.state.volume # 100
    /\ state.volume = 100

\* C18: state.volume is within 0..100 in every reachable state, so is every
\* value set_volume works with, and volume + 5 in volume_up stays below 256:
\* volume_up leaves min(volume + 5, 100) in plain integers
VolumeWithinRange ==
    /\ state.volume \in 0..100
    /\ state.volume + VolumeStep < 256
    /\ \A c \in Ctx :
          /\ op[c].volume \in 0..100
          /\ (pc[c] = "done" /\ op[c].name = "volume_up") =>
                state.volume = Min100(op[c].pre.state.volume + 5)

\* volume_up has returned, invoked at volume 100 on a playing session
VolumeUpAtMaximum ==
    /\ pc["ui"] = "done"
    /\ op["ui"].name = "volume_up"
    /\ op["ui"].pre.state.playing
    /\ op["ui"].pre.state.volume = 100
    /\ state.volume = 100

\* saturating_sub's floor, in plain integers
Floor0(v) == IF v > 0 THEN v ELSE 0

\* C19: set_volume(v) made again after set_volume(v), with no other volume
\* call in between, leaves state.volume where the first call left it
SetVolumeIdempotent ==
    \A c \in Ctx :
        (/\ pc[c] = "done"
         /\ op[c].name = "set_volume"
         /\ op[c].last.name = "set_volume"
         /\ op[c].last.arg = op[c].arg) =>
            /\ state.volume = op[c].pre.state.volume
            /\ state.volume = Min100(op[c].arg)

\* set_volume(255) has returned on a playing session for the second time
\* running, the first call having moved the volume
SetVolumeRepeated ==
    /\ pc["ui"] = "done"
    /\ op["ui"].name = "set_volume"
    /\ op["ui"].arg = 255
    /\ op["ui"].last.name = "set_volume"
    /\ op["ui"].last.arg = 255
    /\ op["ui"].last.volume # 100
    /\ op["ui"].pre.state.playing
    /\ state.volume = 100

\* C20: volume_down after volume_up returns to the volume before the pair when
\* that was in 0..95, volume_up after volume_down when it was in 5..100, and
\* not otherwise; the same holds of the two computations for every volume in
\* 0..100
UpDownRoundTrip ==
    /\ \A c \in Ctx :
          (pc[c] = "done" /\ op[c].name = "volume_down"
                          /\ op[c].last.name = "volume_up") =>
              /\ op[c].pre.state.volume = Min100(op[c].last.volume + 5)
              /\ (state.volume = op[c].last.volume) <=> (op[c].last.volume <= 95)
    /\ \A c \in Ctx :
          (pc[c] = "done" /\ op[c].name = "volume_up"
                          /\ op[c].last.name = "volume_down") =>
              /\ op[c].pre.state.volume = Floor0(op[c].last.volume - 5)
              /\ (state.volume = op[c].last.volume) <=> (op[c].last.volume >= 5)
    /\ \A v \in 0..100 :
          /\ (VolumeDown(VolumeUp(v)) = v) <=> (v <= 95)
          /\ (VolumeUp(VolumeDown(v)) = v) <=> (v >= 5)

\* volume_down has returned after a volume_up made at the default volume 80,
\* and the volume is 80 again
UpDownFromDefault ==
    /\ pc["ui"] = "done"
    /\ op["ui"].name = "volume_down"
    /\ op["ui"].last.name = "volume_up"
    /\ op["ui"].last.volume = DefaultVolume
    /\ op["ui"].pre.state.volume = DefaultVolume + VolumeStep
    /\ state.volume = DefaultVolume

\* C21: the step get_audio_stats takes when the controller is not connected,
\* not playing or paused returns None; it writes nothing, allocates no request
\* id and leaves the controller as it was
AudioStatsNoneWhenOff ==
    [][\A c \in Ctx :
          (/\ pc[c] = "locked"
           /\ op[c].name = "get_audio_stats"
           /\ (reader = 0 \/ writer = 0 \/ ~state.playing \/ state.paused)
           /\ pc'[c] # pc[c]) =>
              /\ pc'[c] = "done"
              /\ op'[c].ret.k = "None"
              /\ op'[c].res = NoRes
              /\ UNCHANGED <<child, reader, writer, request_id, state, sent,
                             inbox>>]_vars

\* get_audio_stats has returned from a connected, playing and paused session
\* without a command
AudioStatsAskedWhilePaused ==
    /\ pc["ui"] = "done"
    /\ op["ui"].name = "get_audio_stats"
    /\ op["ui"].pre.state.playing
    /\ op["ui"].pre.state.paused
    /\ op["ui"].pre.reader # 0
    /\ op["ui"].pre.writer # 0
    /\ op["ui"].res = NoRes
    /\ request_id = op["ui"].pre.request_id

\* C22: has_audio is set only while the levels SpectrumData holds came from an
\* RMS measurement, never while they came from playback time
HasAudioOnlyFromMeasurement ==
    spectrum_data.has_audio => spectrum_data.levels = "real"

\* C23: get_metadata returns Some or None, never an error, whatever came of
\* its commands; invoked without a reader or a writer it returns None, sends
\* nothing and leaves the controller as it was; otherwise it returns Some
\* only from a command that succeeded
MetadataNeverFails ==
    \A c \in Ctx :
        (pc[c] = "done" /\ op[c].name = "get_metadata") =>
            /\ op[c].ret.k \in {"Some", "None"}
            /\ IF op[c].pre.reader = 0 \/ op[c].pre.writer = 0
               THEN /\ op[c].ret.k = "None"
                    /\ op[c].res = NoRes
                    /\ Self = op[c].pre
               ELSE /\ op[c].res.kind \in {"ok", "rejected", "timeout", "closed",
                                            "read_error", "write_error"}
                    /\ op[c].res.kind # "ok" => op[c].ret.k = "None"

\* get_metadata has returned None from a connected session: media-title gave
\* no title and the metadata read timed out
MetadataGaveUp ==
    /\ pc["ui"] = "done"
    /\ op["ui"].name = "get_metadata"
    /\ op["ui"].pre.reader # 0
    /\ op["ui"].pre.writer # 0
    /\ op["ui"].stage = 2
    /\ op["ui"].res.kind = "timeout"
    /\ op["ui"].ret.k = "None"

\* C24: no command is written to a transport handle on which a call of an
\* earlier operation ended closed or in an I/O error
FailedHandleNotReused == [][sent' # sent => writer \notin failed]_vars

\* C25: in every teardown the process is killed only after the transport
\* halves were closed, and every kill is followed by the wait for the process
TeardownInOrder ==
    \A c \in Ctx :
        LET l == op[c].log IN
          \A i \in 1..Len(l) :
              l[i] = "kill" =>
                  /\ i < Len(l) /\ l[i + 1] = "wait"
                  /\ \A j \in (i + 1)..Len(l) : l[j] # "close"

\* C26: the socket file does not exist once stop has returned, once play has
\* returned an error, or once the controller has been dropped
NoSocketFileLeft ==
    \A c \in Ctx :
        (\/ pc[c] = "done" /\ op[c].name = "stop"
         \/ pc[c] = "done" /\ op[c].name = "play" /\ op[c].ret.k = "Err"
         \/ pc[c] = "dropped") => ~socketFile

\* C27: the step in which a call times out leaves reader, writer, child and the
\* PlaybackState as they were; an operation whose call timed out still holds
\* the transport and the child it was invoked with; and the call that follows
\* a timeout is written to that same transport
TimeoutKeepsTransport ==
    [][\A c \in Ctx :
          /\ (pc[c] = "call_read" /\ pc'[c] = "ret"
                                  /\ op'[c].res.kind = "timeout") =>
                /\ UNCHANGED <<child, reader, writer, state, request_id>>
                /\ reader # 0 /\ writer # 0 /\ child # 0
          /\ (pc[c] \in {"ret", "done"} /\ op[c].res.kind = "timeout") =>
                /\ reader = op[c].pre.reader /\ reader # 0
                /\ writer = op[c].pre.writer /\ writer # 0
                /\ child = op[c].pre.child /\ child # 0
          /\ (pc[c] = "ret" /\ op[c].res.kind = "timeout" /\ sent' # sent) =>
                /\ writer' = writer /\ reader' = reader
                /\ sent' = Append(sent, request_id)]_vars

\* the first RMS read of get_audio_stats has timed out on the session it was
\* invoked with, which is still connected; its next command is due
TimedOutWithMoreToSend ==
    /\ pc["audio"] = "ret"
    /\ op["audio"].name = "get_audio_stats"
    /\ op["audio"].stage = 1
    /\ op["audio"].res.kind = "timeout"
    /\ writer = op["audio"].pre.writer
    /\ writer # 0
    /\ state = op["audio"].pre.state

\* C28: play gives up on the socket file only when its looks are used up, and
\* then returns an error with the spawned process killed and reaped; a play
\* that returns Ok is connected; and play does not wait for the file for ever
PlayGivesUpAfterPolls ==
    /\ [](\A c \in Ctx :
            /\ pc[c] = "play_connect" => op[c].polls <= MaxPolls
            /\ pc[c] = "play_reap" => op[c].polls = MaxPolls
            /\ (pc[c] = "done" /\ op[c].name = "play") =>
                  IF op[c].ret.k = "Ok"
                  THEN reader # 0 /\ writer # 0 /\ child # 0
                  ELSE child = 0 /\ procs = {} /\ mpvMode = "none")
    /\ \A c \in Ctx : (pc[c] = "play_connect") ~> (pc[c] = "done")

\* play has returned its error after every look for the socket file failed,
\* invoked on a session that was playing
PlayGaveUp ==
    /\ pc["ui"] = "done"
    /\ op["ui"].name = "play"
    /\ op["ui"].ret.k = "Err"
    /\ op["ui"].polls = MaxPolls
    /\ op["ui"].log[Len(op["ui"].log)] = "wait"
    /\ op["ui"].pre.state.playing
    /\ ~socketFile

\* C29: a call that reads the response to its own request ends with it: with
\* the command-level error, which is none of closed, read error and timeout,
\* when the line's error field is present, not empty and not "success", and
\* with the data of the line otherwise
ErrorFieldDecides ==
    [][\A c \in Ctx :
          (/\ Reads(c)
           /\ Carries(Head(inbox), op[c].rid)
           /\ Head(inbox).event = NoField) =>
              /\ pc'[c] = "ret"
              /\ IF Head(inbox).error \notin {NoField, "", "success"}
                 THEN /\ op'[c].res.kind = "rejected"
                      /\ op'[c].res.kind \notin TransportFailures \cup {"timeout"}
                 ELSE /\ op'[c].res.kind = "ok"
                      /\ op'[c].res.data = Head(inbox).data]_vars

\* the metadata poller's call has ended with the error mpv reported for it
CallRejected ==
    /\ pc["meta"] = "ret"
    /\ op["meta"].res.kind = "rejected"
    /\ op["meta"].rid >= FirstRequestId
    /\ mpvMode = "live"

\* the call of c that just ended read a string that is a number
GotNumber(c) == op[c].res.kind = "ok" /\ op[c].res.data = StrV(<<"7">>)

\* C30: on a connected, playing, unpaused controller get_audio_stats asks for
\* the first RMS path; after an RMS read that gave a number it asks for the
\* peak of that path and returns Some with the peak read, or rms + 3 if that
\* read gave no number; after an RMS read that gave none it asks for the next
\* RMS path, and after the last for the playback time, from which it returns
\* Some if it is a number and None if not; synthetic levels and None come
\* only after both RMS reads and the playback-time read
AudioStatsInOrder ==
    [][\A c \in Ctx :
          /\ (/\ pc[c] = "locked" /\ op[c].name = "get_audio_stats"
              /\ reader # 0 /\ writer # 0 /\ state.playing /\ ~state.paused
              /\ pc'[c] # pc[c]) =>
                 /\ op'[c].stage = 1 /\ CmdOf(op'[c]) = "rms"
                 /\ sent' = Append(sent, request_id)
          /\ (pc[c] = "ret" /\ op[c].name = "get_audio_stats"
                            /\ op'[c] # op[c]) =>
                 CASE op[c].stage \in {1, 3} /\ GotNumber(c) ->
                        /\ op'[c].stage = op[c].stage + 1
                        /\ CmdOf(op'[c]) = "peak"
                        /\ sent' = Append(sent, request_id)
                   [] op[c].stage = 1 /\ ~GotNumber(c) ->
                        /\ op'[c].stage = 3
                        /\ CmdOf(op'[c]) = "rms"
                        /\ sent' = Append(sent, request_id)
                   [] op[c].stage = 3 /\ ~GotNumber(c) ->
                        /\ op'[c].stage = 5
                        /\ CmdOf(op'[c]) = "time"
                        /\ sent' = Append(sent, request_id)
                   [] op[c].stage \in {2, 4} ->
                        /\ pc'[c] = "done"
                        /\ op'[c].ret = Ret("Some", <<"real">>,
                                            IF GotNumber(c) THEN <<"7">>
                                                            ELSE <<"rms+3">>)
                   [] OTHER ->
                        /\ pc'[c] = "done"
                        /\ request_id = op[c].pre.request_id + 3
                        /\ op'[c].ret.k =
                              (IF op[c].res.kind = "ok" /\ op[c].res.data = NumV
                               THEN "Some" ELSE "None")
                        /\ op'[c].ret.k = "Some" =>
                              op'[c].ret.a = <<"synthetic">>]_vars

\* get_audio_stats has returned levels of the second RMS path with rms + 3 as
\* the peak: the first RMS read gave no number, the second did, the peak read
\* gave none
SecondPathWithoutPeak ==
    /\ pc["audio"] = "done"
    /\ op["audio"].name = "get_audio_stats"
    /\ op["audio"].stage = 4
    /\ op["audio"].res.kind # "ok"
    /\ op["audio"].ret = Ret("Some", <<"real">>, <<"rms+3">>)
    /\ request_id = op["audio"].pre.request_id + 3

\* the separator occurs in s
HasSep(s) == \E i \in 1..Len(s) : s[i] = "-"

\* C31: when the media-title command of get_metadata has come back with a
\* non-empty string s, get_metadata returns Some((artist, title)) at once: with
\* a separator in s, artist is the text before its first occurrence (artist
\* holds no separator and artist, separator, title make up s), and without
\* one artist is empty and title is s
MediaTitleSplitAtFirstSeparator ==
    [][(/\ pc["ui"] = "ret"
        /\ op["ui"].name = "get_metadata"
        /\ op["ui"].stage = 1
        /\ op["ui"].res.kind = "ok"
        /\ op["ui"].res.data.t = "str"
        /\ op["ui"].res.data.s # <<>>
        /\ pc'["ui"] # "ret")
       => LET s == op["ui"].res.data.s
              r == op'["ui"].ret
          IN /\ pc'["ui"] = "done"
             /\ r.k = "Some"
             /\ IF HasSep(s)
                THEN ~HasSep(r.a) /\ r.a \o <<"-">> \o r.t = s
                ELSE r.a = <<>> /\ r.t = s]_vars

\* get_metadata has returned off a media-title with two separators
TitleWithTwoSeparators ==
    /\ pc["ui"] = "done"
    /\ op["ui"].name = "get_metadata"
    /\ op["ui"].stage = 1
    /\ op["ui"].res.data.s = <<"A", "-", "-">>
    /\ op["ui"].ret = Ret("Some", <<"A">>, <<"-">>)

\* x is a finite value between lo and hi
Within(x, lo, hi) == x.k = "num" /\ lo <= x.v /\ x.v <= hi

\* C32: the fallback levels depend on the playback-time alone, so that two
\* computations for one time give the same pair, and for every time the RMS
\* lies in [-18, -3] dB and the peak in [-15, 0] dB
FallbackLevelsInBands ==
    calc.fn = "levels" =>
        \A i \in 1..Len(calc.out) :
            /\ calc.out[i] = calc.out[1]
            /\ Within(calc.out[i][1], -18000, -3000)
            /\ Within(calc.out[i][2], -15000, 0)

\* C33: decay makes the peaks decay more slowly than the bins: after
\* decay(factor) with 0 < factor <= 1, a peak that was equal to its bin before
\* the call is not below that bin afterwards
PeaksDecaySlower ==
    (/\ calc.fn = "decay"
     /\ calc.out # <<>>
     /\ calc.in[1].peaks = calc.in[1].bin)
    => calc.out[1].peaks.v >= calc.out[1].bin.v

\* C34: the answer to an earlier request, whose call timed out or was
\* abandoned, that a later call finds on the transport never completes the
\* later call: the later call reads it, drops it and goes on waiting; what
\* completes it is a line with its own request id
LateAnswerIsDiscarded ==
    [][\A c \in Ctx :
          /\ (/\ Reads(c)
              /\ Head(inbox).request_id >= FirstRequestId
              /\ Head(inbox).request_id < op[c].rid)
             => pc'[c] = "call_read" /\ op'[c] = op[c]
          /\ (Completes(c) /\ mpvProc.late # {})
             => Head(inbox).request_id = op[c].rid]_vars

\* a call has ended with its own answer after mpv wrote the answer to the
\* request before it, whose call had timed out or been abandoned, and
\* nothing is left to read
CompletedAfterLateAnswer ==
    \E c \in Ctx :
        /\ pc[c] = "ret"
        /\ op[c].res.kind = "ok"
        /\ (op[c].rid - 1) \in mpvProc.late
        /\ inbox = <<>>

\* context c is in the middle of a controller operation
Midway(c) ==
    pc[c] \in {"locked", "play_connect", "play_reap", "play_sleep", "call_read",
               "ret"}

\* C35: once a public operation has returned, and until the next begins, the
\* controller is marked playing exactly if reader, writer and child handle
\* are all present
PlayingIffConnected ==
    (\A c \in Ctx : ~Midway(c)) =>
        (state.playing <=> (reader # 0 /\ writer # 0 /\ child # 0))

\* play has returned Ok with the transport connected to the process spawned
PlayReturnedConnected ==
    /\ pc["ui"] = "done"
    /\ op["ui"].name = "play"
    /\ op["ui"].ret.k = "Ok"
    /\ state.playing
    /\ child # 0
    /\ reader = child
    /\ writer = child

\* C36: whenever no operation of the controller is under way in a session,
\* state.paused is the pause state of the mpv process, whatever became of
\* the answers to the toggle_pause calls made
PausedMatchesProcess ==
    ((\A c \in Ctx : ~Midway(c)) /\ state.playing /\ mpvMode = "live")
    => state.paused = ThisProc.paused

\* the stored Option<String> describes the returned string: the same text, or
\* nothing (or the empty text) stored for an empty one
Describes(stored, returned) ==
    \/ stored = returned
    \/ returned = <<>> /\ stored = NoStr

\* C37: when get_metadata has returned Some((artist, title)), state.artist and
\* state.title describe that pair, so that no artist of an earlier title is
\* left beside the newer title
StoredMetadataMatchesReturned ==
    \A c \in Ctx :
        (pc[c] = "done" /\ op[c].name = "get_metadata" /\ op[c].ret.k = "Some")
        => /\ Describes(state.title, op[c].ret.t)
           /\ Describes(state.artist, op[c].ret.a)

\* what App shows of the stream: song, history, stream title, artwork
Displayed(a) == <<a.current_song, a.song_history, a.stream_title, a.artwork>>

\* C38: the UI loop applies an update of the metadata poller only if the
\* channel it was made for is the current channel when the loop takes it off
\* the queue: an update for any other channel, or taken while no channel is
\* current, changes neither song nor history nor stream title nor artwork
UpdateAppliedOnlyToCurrentChannel ==
    [][(/\ update_rx # <<>>
        /\ update_rx' = Tail(update_rx)
        /\ Displayed(app') # Displayed(app))
       => /\ app.current_channel \in 1..Len(app.channels)
          /\ Head(update_rx).channel_id = app.channels[app.current_channel]]_vars

\* the loop is about to take an update for a channel the user has left for
\* another, which would show something new
StaleUpdateAtHead ==
    /\ Alive
    /\ update_rx # <<>>
    /\ app.current_channel # 0
    /\ Head(update_rx).channel_id # CurrentId(app)
    /\ Displayed(Applied(Head(update_rx), app)) # Displayed(app)

\* C40: after any sequence of App actions, Refresh with a list of another
\* length or order included, current_channel (when set) is an index into
\* channels, so that current_channel() never indexes out of bounds
CurrentChannelIsValidIndex ==
    app.current_channel # 0 => app.current_channel \in 1..Len(app.channels)

\* the last two keys were VolumeDown, pressed unmuted at a volume in 5..=100,
\* and then VolumeUp
DownThenUp ==
    /\ calc.fn = "keys"
    /\ Len(calc.in) = 2
    /\ calc.in[1].key = "VolumeDown"
    /\ ~calc.in[1].is_muted
    /\ calc.in[1].volume \in VolumeStep..MaxVolume
    /\ calc.in[2].key = "VolumeUp"

\* C39: Action::VolumeDown followed by Action::VolumeUp returns the player
\* volume to its starting value, for every unmuted starting volume in 5..=100
\* and whatever volume and mute keys came before
DownThenUpRestoresVolume == DownThenUp => state.volume = calc.in[1].volume

====
